---- MODULE Spec2Model ----
(***************************************************************************)
(* Model of the QA workflow orchestrator (app/src/routers/jira.py), the    *)
(* tracker client with its retrying HTTP session                          *)
(* (app/src/services/jira_service.py), the file writer                     *)
(* (app/src/services/file_service.py), the response and request schemas    *)
(* (app/src/schemas.py), the API key check (app/src/security.py) and the   *)
(* endpoints that expose them.                                             *)
(*                                                                         *)
(* Python strings are sequences of one-character strings, so that          *)
(* str.lower(), the `in` substring test and f-string formatting are        *)
(* computed rather than assumed.  Python None is NoneStr where a str is    *)
(* expected and None where a dict or list is expected.                     *)
(*                                                                         *)
(* Spec runs one invocation at a time.  LiveSpec adds the progress of the  *)
(* single thread of control.  ConcSpec interleaves two invocations of the  *)
(* workflow that share the settings, the session and the file system.     *)
(***************************************************************************)
EXTENDS Integers, Sequences, FiniteSets, TLC

VARIABLES
    entry,                \* which function of the program was invoked
    settings,             \* get_settings(): which credentials are configured
    pool,                 \* responses the tracker may give in this run
    payload,              \* FullQAFlowRequest, or the arguments of a direct call
    x_api_key,            \* the X-API-Key header of the request, or NoneStr
    background_tasks,     \* BackgroundTasks: the tasks added by the endpoint
    pc,                   \* position of the invocation in its code
    tests,                \* validated GenerateTestsResponse, or None
    playwright,           \* validated GeneratePlaywrightResponse, or None
    automation_decision,  \* validated AutomationDecision, or None
    jira_comment,         \* local jira_comment of _run_full_qa_flow
    files_written,        \* local files_written
    resolved,             \* the paths write_playwright_files has resolved
    disk,                 \* the paths write_text has written to
    task_created,         \* local task_created
    used_issue_type,      \* issue type returned by _create_issue_with_fallback
    issue_type_warning,   \* warning returned by _create_issue_with_fallback
    http,                 \* the tracker operation in flight and its HTTP exchange
    message,              \* local message of _create_issue_with_fallback
    trace,                \* operations invoked so far, in order
    raised,               \* exception that left the invoked function, or NoExc
    response,             \* what the caller receives, or None
    log,                  \* lines printed by the background task
    other                 \* the request, locals and position of a second
                          \* invocation while this one runs, or None

vars == <<entry, settings, pool, payload, x_api_key, background_tasks, other, pc,
          tests, playwright, automation_decision, jira_comment, files_written,
          resolved, disk, task_created, used_issue_type, issue_type_warning,
          message, http, trace, raised, response, log>>

None == [null |-> TRUE]
NoneStr == <<"None">>
NoExc == [type |-> "none", message |-> NoneStr]

-----------------------------------------------------------------------------
(* Strings *)

UpperChars ==
    <<"A", "B", "C", "D", "E", "F", "G", "H", "I", "J", "K", "L", "M", "N", 
      "O", "P", "Q", "R", "S", "T", "U", "V", "W", "X", "Y", "Z">>
LowerChars ==
    <<"a", "b", "c", "d", "e", "f", "g", "h", "i", "j", "k", "l", "m", "n", 
      "o", "p", "q", "r", "s", "t", "u", "v", "w", "x", "y", "z">>
DigitChars ==
    <<"0", "1", "2", "3", "4", "5", "6", "7", "8", "9">>

\* a lower() that leaves every character as it is
lower_char_identity(c) == c

\* str.lower() on one character
lower_char(c) ==
    IF \E i \in 1..Len(UpperChars) : UpperChars[i] = c
    THEN LowerChars[CHOOSE i \in 1..Len(UpperChars) : UpperChars[i] = c]
    ELSE c

\* str.lower()
lower(s) == [i \in 1..Len(s) |-> lower_char(s[i])]

\* Python `sub in s` for strings
contains(s, sub) ==
    \E i \in 0..(Len(s) - Len(sub)) :
        \A j \in 1..Len(sub) : s[i + j] = sub[j]

\* str(n) for a three-digit status code
str_int(n) ==
    <<DigitChars[(n \div 100) + 1], DigitChars[((n \div 10) % 10) + 1],
      DigitChars[(n % 10) + 1]>>

\* Python truthiness of an optional str
truthy(s) == s # NoneStr /\ Len(s) > 0

\* str.startswith
starts_with(s, prefix) ==
    /\ Len(prefix) <= Len(s)
    /\ \A j \in 1..Len(prefix) : s[j] = prefix[j]

\* str.endswith
ends_with(s, suffix) ==
    /\ Len(suffix) <= Len(s)
    /\ \A j \in 1..Len(suffix) : s[Len(s) - Len(suffix) + j] = suffix[j]

RECURSIVE lstrip(_)
lstrip(s) ==
    IF s # <<>> /\ Head(s) \in {" ", "\t", "\n"} THEN lstrip(Tail(s)) ELSE s

RECURSIVE rstrip(_)
rstrip(s) ==
    IF s # <<>> /\ s[Len(s)] \in {" ", "\t", "\n"}
    THEN rstrip(SubSeq(s, 1, Len(s) - 1))
    ELSE s

\* str.strip()
strip(s) == rstrip(lstrip(s))

TASK == <<"T", "a", "s", "k">>
SUB_TASK == <<"S", "u", "b", "-", "t", "a", "s", "k">>
SUBTASK_MIXED == <<"S", "u", "b", "T", "a", "s", "k">>
BUG == <<"B", "u", "g">>
RELATES == <<"R", "e", "l", "a", "t", "e", "s">>
ORIGIN_KEY == <<"Q", "A", "P", "-", "1", "0">>
OTHER_KEY == <<"Q", "A", "P", "-", "1", "1">>
CREATED_KEY == <<"Q", "A", "P", "-", "1", "2", "3">>
SUMMARY_PREFIX == <<"A", "u", "t", "o", "m", "a", "t", "i", "o", "n">>
DESCRIPTION == <<"F", "i", "l", "e", "s", ":">>
FALLBACK_NOTE ==
    <<"\n", "\n", "F", "a", "l", "l", "b", "a", "c", "k", " ", "n", "o", 
      "t", "e", ":", " ", "R", "e", "q", "u", "e", "s", "t", "e", "d", 
      " ", "i", "s", "s", "u", "e", " ", "t", "y", "p", "e", " ", "w", 
      "a", "s", " ", "u", "n", "a", "v", "a", "i", "l", "a", "b", "l", 
      "e", ";", " ", "c", "r", "e", "a", "t", "e", "d", " ", "a", "s", 
      " ", "T", "a", "s", "k", ".">>
VALID_ISSUE_TYPE == <<"v", "a", "l", "i", "d", " ", "i", "s", "s", "u", "e", " ", "t", "y", 
                      "p", "e">>
TEXT_VALID_TYPE == <<"S", "p", "e", "c", "i", "f", "y", " ", "a", " ", "v", "a", "l", "i", 
                     "d", " ", "i", "s", "s", "u", "e", " ", "t", "y", 
                     "p", "e">>
TEXT_VALID_TYPE_CAPS == <<"S", "p", "e", "c", "i", "f", "y", " ", "a", " ", "V", "a", "l", "i", 
                          "d", " ", "I", "s", "s", "u", "e", " ", "T", 
                          "y", "p", "e">>
TEXT_NOT_FOUND == <<"I", "s", "s", "u", "e", " ", "d", "o", "e", "s", " ", "n", "o", "t", 
                    " ", "e", "x", "i", "s", "t">>
TEXT_OK == <<"{", "}">>
MSG_MISSING_ENV == <<"M", "i", "s", "s", "i", "n", "g", " ", "J", "i", "r", "a", " ", "e", 
                     "n", "v", " ", "v", "a", "r", "s", ".">>
MSG_MISSING_PROJECT == <<"M", "i", "s", "s", "i", "n", "g", " ", "J", "I", "R", "A", "_", "P", 
                         "R", "O", "J", "E", "C", "T", "_", "K", "E", 
                         "Y", " ", "i", "n", " ", "a", "p", "p", "/", 
                         ".", "e", "n", "v">>
MSG_COMMENT_ERROR == <<"J", "i", "r", "a", " ", "c", "o", "m", "m", "e", "n", "t", " ", "e", 
                       "r", "r", "o", "r", " ">>
MSG_CREATE_ERROR == <<"J", "i", "r", "a", " ", "c", "r", "e", "a", "t", "e", " ", "i", "s", 
                      "s", "u", "e", " ", "e", "r", "r", "o", "r", 
                      " ">>
MSG_LINK_ERROR == <<"J", "i", "r", "a", " ", "i", "s", "s", "u", "e", " ", "l", "i", "n", 
                    "k", " ", "e", "r", "r", "o", "r", " ">>
MSG_MISSING_GEMINI == <<"M", "i", "s", "s", "i", "n", "g", " ", "G", "E", "M", "I", "N", "I", 
                        "_", "A", "P", "I", "_", "K", "E", "Y", " ", 
                        "i", "n", " ", "a", "p", "p", "/", ".", "e", 
                        "n", "v">>
MSG_BACKEND == <<"b", "a", "c", "k", "e", "n", "d", " ", "u", "n", "a", "v", "a", "i", 
                 "l", "a", "b", "l", "e">>
MSG_SCHEMA == <<"v", "a", "l", "i", "d", "a", "t", "i", "o", "n", " ", "e", "r", "r", 
                "o", "r">>
MSG_INJECTION == <<"a", "p", "p", "e", "a", "r", "s", " ", "t", "o", " ", "i", "n", "c", 
                   "l", "u", "d", "e", " ", "p", "r", "o", "m", "p", 
                   "t", "-", "i", "n", "j", "e", "c", "t", "i", "o", 
                   "n", " ", "i", "n", "s", "t", "r", "u", "c", "t", 
                   "i", "o", "n", "s">>
MSG_ESCAPE == <<"R", "e", "s", "o", "l", "v", "e", "d", " ", "p", "a", "t", "h", " ", 
                "e", "s", "c", "a", "p", "e", "s", " ", "p", "l", "a", 
                "y", "w", "r", "i", "g", "h", "t", "-", "t", "e", "s", 
                "t", "s", " ", "d", "i", "r", "e", "c", "t", "o", "r", 
                "y">>
COLON == <<":", " ">>
BAR == <<" ", "|", " ">>
CRITERIA_PLAIN == <<"G", "i", "v", "e", "n", " ", "a", " ", "u", "s", "e", "r", " ", "l", 
                    "o", "g", "s", " ", "i", "n">>
CRITERIA_INJECTED == <<"P", "l", "e", "a", "s", "e", " ", "I", "g", "n", "o", "r", "e", " ", 
                       "P", "r", "e", "v", "i", "o", "u", "s", " ", 
                       "I", "n", "s", "t", "r", "u", "c", "t", "i", 
                       "o", "n", "s">>
CONTEXT_INJECTED == <<"Y", "o", "u", " ", "A", "r", "e", " ", "N", "o", "w", " ", "r", "o", 
                      "o", "t">>
EMPTY == <<>>
SECRET == <<"s", "e", "c", "u", "r", "e", "-", "t", "o", "k", "e", "n">>
WRONG_KEY == <<"o", "t", "h", "e", "r", "-", "t", "o", "k", "e", "n">>
MSG_PATH_EMPTY == <<"F", "i", "l", "e", " ", "p", "a", "t", "h", " ", "c", "a", "n", "n", 
                    "o", "t", " ", "b", "e", " ", "e", "m", "p", "t", 
                    "y">>
MSG_PATH_ABSOLUTE == <<"A", "b", "s", "o", "l", "u", "t", "e", " ", "p", "a", "t", "h", "s", 
                       " ", "a", "r", "e", " ", "n", "o", "t", " ", 
                       "a", "l", "l", "o", "w", "e", "d">>
MSG_PATH_TRAVERSAL == <<"P", "a", "t", "h", " ", "t", "r", "a", "v", "e", "r", "s", "a", "l", 
                        " ", "i", "s", " ", "n", "o", "t", " ", "a", 
                        "l", "l", "o", "w", "e", "d">>
MSG_PATH_BACKSLASH == <<"B", "a", "c", "k", "s", "l", "a", "s", "h", " ", "p", "a", "t", "h", 
                        "s", " ", "a", "r", "e", " ", "n", "o", "t", 
                        " ", "a", "l", "l", "o", "w", "e", "d">>
MSG_PATH_NOT_TESTS == <<"G", "e", "n", "e", "r", "a", "t", "e", "d", " ", "f", "i", "l", "e", 
                        "s", " ", "m", "u", "s", "t", " ", "b", "e", 
                        " ", "u", "n", "d", "e", "r", " ", "t", "e", 
                        "s", "t", "s", "/">>
MSG_PATH_SUFFIX == <<"G", "e", "n", "e", "r", "a", "t", "e", "d", " ", "f", "i", "l", "e", 
                     " ", "m", "u", "s", "t", " ", "b", "e", " ", "a", 
                     " ", "P", "l", "a", "y", "w", "r", "i", "g", "h", 
                     "t", " ", "s", "p", "e", "c", "/", "t", "e", "s", 
                     "t", " ", "f", "i", "l", "e">>
MSG_STARTED == <<"F", "u", "l", "l", " ", "Q", "A", " ", "f", "l", "o", "w", " ", "s", 
                 "t", "a", "r", "t", "e", "d", " ", "i", "n", " ", "b", 
                 "a", "c", "k", "g", "r", "o", "u", "n", "d", ".">>
LOG_PREFIX == <<"[", "j", "i", "r", "a", "/", "f", "u", "l", "l", "-", "q", "a", "-", 
                "f", "l", "o", "w", "-", "a", "s", "y", "n", "c", "]", 
                " ", "b", "a", "c", "k", "g", "r", "o", "u", "n", "d", 
                " ", "e", "r", "r", "o", "r", " ", "f", "o", "r", 
                " ">>
PATH_LOGIN == <<"t", "e", "s", "t", "s", "/", "a", "u", "t", "h", "/", "l", "o", "g", 
                "i", "n", ".", "s", "p", "e", "c", ".", "j", "s">>
PATH_HOME == <<"t", "e", "s", "t", "s", "/", "h", "o", "m", "e", ".", "t", "e", "s", 
               "t", ".", "t", "s">>
TESTS_DIR == <<"t", "e", "s", "t", "s", "/">>
AUTH_DIR == <<"t", "e", "s", "t", "s", "/", "a", "u", "t", "h", "/">>
SLASH == <<"/">>
BACKSLASH == <<"\\">>
DOTDOT == <<".", ".">>
BASE_DIR == <<"/", "s", "r", "v", "/", "q", "a", "p", "/", "p", "l", "a", "y", "w", 
              "r", "i", "g", "h", "t", "-", "t", "e", "s", "t", "s">>
OUTSIDE_DIR == <<"/", "e", "t", "c", "/", "c", "r", "o", "n", ".", "d">>

\* the suffixes FileItem.validate_relative_test_path approves
APPROVED_SUFFIXES ==
    { <<".", "s", "p", "e", "c", ".", "j", "s">>, <<".", "t", "e", "s", "t", ".", "j", "s">>, <<".", "s", "p", "e", "c", ".", "t", "s">>, <<".", "t", "e", "s", "t", ".", "t", "s">> }

\* llm_service.PROMPT_INJECTION_MARKERS
PROMPT_INJECTION_MARKERS ==
    { <<"i", "g", "n", "o", "r", "e", " ", "p", "r", "e", "v", "i", "o", "u", 
        "s", " ", "i", "n", "s", "t", "r", "u", "c", "t", "i", "o", 
        "n", "s">>,
      <<"r", "e", "v", "e", "a", "l", " ", "s", "y", "s", "t", "e", "m", " ", 
        "p", "r", "o", "m", "p", "t">>,
      <<"d", "e", "v", "e", "l", "o", "p", "e", "r", " ", "m", "e", "s", "s", 
        "a", "g", "e">>,
      <<"y", "o", "u", " ", "a", "r", "e", " ", "n", "o", "w">>,
      <<"e", "x", "f", "i", "l", "t", "r", "a", "t", "e">>,
      <<"r", "e", "t", "u", "r", "n", " ", "s", "e", "c", "r", "e", "t", 
        "s">> }

\* the sub-task test of jira.py:49, jira.py:120 and jira_service.py:99
is_subtask(issue_type) ==
    lower(issue_type) \in {<<"s", "u", "b", "-", "t", "a", "s", "k">>, <<"s", "u", "b", "t", "a", "s", "k">>}

-----------------------------------------------------------------------------
(* Settings and the tracker client: services/jira_service.py *)

\* a total that counts the first request as well as the retries
RetryTotal_counting_first == 3 - 1

\* a total that allows a fourth retry
RetryTotal_one_more == 3 + 1

\* Retry(total=3, ...)
RetryTotal == 3

\* a forcelist that also retries 404
status_forcelist_with_404 == {404, 429, 500, 502, 503, 504}

\* Retry(status_forcelist=[429, 500, 502, 503, 504], ...)
status_forcelist == {429, 500, 502, 503, 504}

\* a jira_auth that never asks for the project key
jira_auth_without_project_key(include_project_key) ==
    IF ~(settings.jira_base_url /\ settings.jira_email
         /\ settings.jira_api_token)
    THEN MSG_MISSING_ENV
    ELSE NoneStr

\* jira_auth: the message of the RuntimeError it raises, or NoneStr
jira_auth(include_project_key) ==
    IF ~(settings.jira_base_url /\ settings.jira_email
         /\ settings.jira_api_token)
    THEN MSG_MISSING_ENV
    ELSE IF include_project_key /\ ~settings.jira_project_key
         THEN MSG_MISSING_PROJECT
         ELSE NoneStr

NoResp == [status |-> 0, text |-> NoneStr, key |-> NoneStr]
NoRequest == [url |-> "none"]
IdleHttp == [active |-> FALSE, op |-> "none", request |-> NoRequest,
             retries_left |-> 0, statuses |-> <<>>, response |-> NoResp]

\* a response of the tracker: status, raw body text, and json().get("key")
Resp(status, text, key) == [status |-> status, text |-> text, key |-> key]

\* the JSON body jira_add_comment posts
comment_request(issue_key, comment) ==
    [url |-> "comment", issue_key |-> issue_key, body |-> comment]

\* fields that carry the parent for every issue type
create_request_always_parent(summary, description, issue_type, parent_key) ==
    [url |-> "issue", summary |-> summary, description |-> description,
     issuetype |-> issue_type, parent |-> parent_key]

\* the fields jira_create_issue posts: parent only for a sub-task with a parent
create_request(summary, description, issue_type, parent_key) ==
    [url |-> "issue", summary |-> summary, description |-> description,
     issuetype |-> issue_type,
     parent |-> IF is_subtask(issue_type) /\ truthy(parent_key)
                THEN parent_key ELSE NoneStr]

\* the JSON body jira_link_issues posts
link_request(inward_issue_key, outward_issue_key, link_type_name) ==
    [url |-> "issueLink", type |-> link_type_name,
     inwardIssue |-> inward_issue_key, outwardIssue |-> outward_issue_key]

\* SESSION.post is reached: the retrying session starts its exchange
begin_post(op, request, ret) ==
    /\ http' = [active |-> TRUE, op |-> op, request |-> request,
                retries_left |-> RetryTotal, statuses |-> <<>>,
                response |-> NoResp]
    /\ pc' = ret

\* urllib3 Retry.is_retry for a POST: the status is in the forcelist
is_retry(status) == status \in status_forcelist

\* the status check after SESSION.post
request_failed(resp) == resp.status >= 300

error_prefix(op) ==
    IF op = "jira_add_comment" THEN MSG_COMMENT_ERROR
    ELSE IF op = "jira_create_issue" THEN MSG_CREATE_ERROR
    ELSE MSG_LINK_ERROR

\* f"Jira ... error {response.status_code}: {response.text}"
error_message(op, resp) ==
    error_prefix(op) \o str_int(resp.status) \o COLON \o resp.text

-----------------------------------------------------------------------------
(* Inputs *)

IssueTypes == {TASK, SUB_TASK, SUBTASK_MIXED, BUG}

SettingsSet ==
    [gemini_api_key : BOOLEAN, jira_base_url : BOOLEAN, jira_email : BOOLEAN,
     jira_api_token : BOOLEAN, jira_project_key : BOOLEAN,
     api_auth_token : {NoneStr, EMPTY, SECRET}]

\* values of the X-API-Key header

\* FullQAFlowRequest values that passed request validation
FullQAFlowRequest ==
    [issueKey : {ORIGIN_KEY},
     acceptanceCriteria : {CRITERIA_PLAIN, CRITERIA_INJECTED},
     context : {NoneStr, CONTEXT_INJECTED},
     baseUrl : {NoneStr},
     commentOnJira : BOOLEAN,
     writePlaywrightFiles : BOOLEAN,
     createAutomationTask : BOOLEAN,
     automationIssueType : IssueTypes,
     automationSummaryPrefix : {SUMMARY_PREFIX}]

\* arguments of a direct call of _create_issue_with_fallback
FallbackArgs ==
    [summary : {SUMMARY_PREFIX}, description : {DESCRIPTION},
     issue_type : IssueTypes, parent_key : {NoneStr, ORIGIN_KEY}]

\* a direct call of one tracker operation
TrackerOps == {"jira_add_comment", "jira_create_issue", "jira_link_issues"}
OpArgs == [op : TrackerOps]

OkResponses == {Resp(201, TEXT_OK, CREATED_KEY), Resp(200, TEXT_OK, NoneStr)}

\* tracker responses seen by a workflow run
FlowPool ==
    OkResponses \cup
    {Resp(400, TEXT_VALID_TYPE, NoneStr), Resp(404, TEXT_NOT_FOUND, NoneStr),
     Resp(503, TEXT_NOT_FOUND, NoneStr)}

\* tracker responses seen by a direct call of _create_issue_with_fallback
FallbackPool ==
    OkResponses \cup
    { Resp(s, t, NoneStr) :
        s \in {400, 404, 503},
        t \in {TEXT_VALID_TYPE, TEXT_VALID_TYPE_CAPS, TEXT_NOT_FOUND} }

\* tracker responses seen by a direct call of one tracker operation
OpStatuses == {200, 201, 400, 404, 429, 500, 502, 503, 504}
OpPool ==
    { Resp(s, IF s < 300 THEN TEXT_OK ELSE TEXT_NOT_FOUND,
           IF s = 201 THEN CREATED_KEY ELSE NoneStr) : s \in OpStatuses }

\* the request body of POST /generate-tests
GenerateTestsRequest ==
    [acceptanceCriteria : {CRITERIA_PLAIN, CRITERIA_INJECTED},
     context : {NoneStr, CONTEXT_INJECTED}]

\* the request the tests of the full workflow send: every toggle on
PLAIN_REQUEST ==
    [issueKey |-> ORIGIN_KEY, acceptanceCriteria |-> CRITERIA_PLAIN,
     context |-> NoneStr, baseUrl |-> NoneStr, commentOnJira |-> TRUE,
     writePlaywrightFiles |-> TRUE, createAutomationTask |-> TRUE,
     automationIssueType |-> TASK, automationSummaryPrefix |-> SUMMARY_PREFIX]

\* the scenario lists of the backend's answers: S1..S4 and S1..S5

FileItemOf(path) == [path |-> path, content |-> <<"t", "e", "s", "t", "(", "'", "o", "k", "'", ",", " ", "(", ")", "=", 
                                                  ">", "{", "}", ")">>]

BadPaths ==
    { <<" ", " ">>, <<".", ".", "/", "s", "e", "c", "r", "e", "t", "s", ".", "t", "x", 
                 "t">>, <<"t", "e", "s", "t", "s", "/", ".", ".", "/", ".", ".", "/", "e", "t", 
                                      "c", "/", "c", "r", "o", "n", 
                                      ".", "s", "p", "e", "c", ".", 
                                      "j", "s">>,
      <<"/", "e", "t", "c", "/", "c", "r", "o", "n", ".", "s", "p", "e", "c", 
        ".", "j", "s">>, <<"\\", "t", "e", "s", "t", "s", "\\", "l", "o", "g", "i", "n", ".", 
                                "s", "p", "e", "c", ".", "j", "s">>,
      <<"t", "e", "s", "t", "s", "/", "a", "u", "t", "h", "\\", "l", "o", 
        "g", "i", "n", ".", "s", "p", "e", "c", ".", "j", "s">>, <<"s", "r", "c", "/", "l", "o", "g", "i", "n", ".", "s", "p", "e", "c", 
                                        ".", "j", "s">>,
      <<"t", "e", "s", "t", "s", "/", "a", "u", "t", "h", "/", "n", "o", "t", 
        "e", "s", ".", "t", "x", "t">> }

\* the files lists of the backend's answers
FileLists ==
    {<<FileItemOf(PATH_LOGIN)>>, <<FileItemOf(<<" ", "t", "e", "s", "t", "s", "/", "a", "u", "t", "h", "/", "l", "o", 
                                                "g", "i", "n", ".", 
                                                "s", "p", "e", "c", 
                                                ".", "j", "s", "\n">>)>>,
     <<[path |-> PATH_LOGIN, content |-> EMPTY]>>}
    \cup { <<FileItemOf(PATH_LOGIN), FileItemOf(b)>> : b \in BadPaths }
    \cup { <<FileItemOf(b)>> : b \in BadPaths }

\* text returned by the generation backend, after _clean_json_text
TestsTexts ==
    { [wellformed |-> w, scenarios |-> SubSeq(<<"S1", "S2", "S3", "S4", "S5">>, 1, n)] :
        w \in BOOLEAN, n \in {4, 5} }
PlaywrightTexts ==
    {[wellformed |-> FALSE, files |-> <<>>]}
    \cup { [wellformed |-> TRUE, files |-> fs] : fs \in FileLists }
DecisionTexts ==
    [wellformed : BOOLEAN, shouldCreateAutomationTask : BOOLEAN,
     recommendedCoverage : {"full_automation", "manual_only", "automatic"}]

\* a scenario validation that accepts any text
tests_valid_any(text) == TRUE

\* GenerateTestsResponse.model_validate_json accepts the text
tests_valid(text) == text.wellformed

MAX_FILE_CONTENT_CHARS == 200000

\* FileItem.validate_relative_test_path: the value it returns
validate_relative_test_path(value) == strip(value)

\* a path check that forgets the ".." test
path_error_without_dotdot(value) ==
    LET normalized == strip(value) IN
    IF normalized = <<>> THEN MSG_PATH_EMPTY
    ELSE IF starts_with(normalized, SLASH) \/ starts_with(normalized, BACKSLASH)
    THEN MSG_PATH_ABSOLUTE
    ELSE IF contains(normalized, BACKSLASH) THEN MSG_PATH_BACKSLASH
    ELSE IF ~starts_with(normalized, TESTS_DIR) THEN MSG_PATH_NOT_TESTS
    ELSE IF ~\E suffix \in APPROVED_SUFFIXES : ends_with(normalized, suffix)
    THEN MSG_PATH_SUFFIX
    ELSE NoneStr

\* FileItem.validate_relative_test_path: the message of the ValueError it
\* raises for the value, or NoneStr
path_error(value) ==
    LET normalized == strip(value) IN
    IF normalized = <<>> THEN MSG_PATH_EMPTY
    ELSE IF starts_with(normalized, SLASH) \/ starts_with(normalized, BACKSLASH)
    THEN MSG_PATH_ABSOLUTE
    ELSE IF contains(normalized, DOTDOT) THEN MSG_PATH_TRAVERSAL
    ELSE IF contains(normalized, BACKSLASH) THEN MSG_PATH_BACKSLASH
    ELSE IF ~starts_with(normalized, TESTS_DIR) THEN MSG_PATH_NOT_TESTS
    ELSE IF ~\E suffix \in APPROVED_SUFFIXES : ends_with(normalized, suffix)
    THEN MSG_PATH_SUFFIX
    ELSE NoneStr

\* FileItem: the validation error of the item, or NoneStr
file_item_error(item) ==
    IF path_error(item.path) # NoneStr THEN path_error(item.path)
    ELSE IF Len(item.content) < 1 \/ Len(item.content) > MAX_FILE_CONTENT_CHARS
    THEN MSG_SCHEMA
    ELSE NoneStr

\* GeneratePlaywrightResponse.model_validate_json: the validation error of
\* the text, that of its first rejected file, or NoneStr
playwright_error(text) ==
    IF ~text.wellformed THEN MSG_SCHEMA
    ELSE IF \E i \in DOMAIN text.files : file_item_error(text.files[i]) # NoneStr
    THEN file_item_error(text.files[
             CHOOSE i \in DOMAIN text.files :
                /\ file_item_error(text.files[i]) # NoneStr
                /\ \A j \in 1..(i - 1) : file_item_error(text.files[j]) = NoneStr])
    ELSE NoneStr

\* GeneratePlaywrightResponse.model_validate_json accepts the text
playwright_valid(text) == playwright_error(text) = NoneStr

\* the GeneratePlaywrightResponse built from an accepted text
playwright_validated(text) ==
    [wellformed |-> TRUE,
     files |-> [i \in DOMAIN text.files |->
                  [path |-> validate_relative_test_path(text.files[i].path),
                   content |-> text.files[i].content]]]

\* AutomationDecision.model_validate_json accepts the text
decision_valid(text) ==
    /\ text.wellformed
    /\ text.recommendedCoverage
         \in {"full_automation", "partial_automation", "manual_only"}

\* Path.resolve() of base_dir / path for a validated path
resolve(links, path) ==
    IF links # "none" /\ starts_with(path, AUTH_DIR)
    THEN (IF links = "outside" THEN OUTSIDE_DIR ELSE <<"/", "s", "r", "v", "/", "q", "a", "p", "/", "p", "l", "a", "y", "w", 
                                                       "r", "i", "g", 
                                                       "h", "t", "-", 
                                                       "t", "e", "s", 
                                                       "t", "s", "-", 
                                                       "o", "l", "d">>)
         \o SLASH \o SubSeq(path, Len(AUTH_DIR) + 1, Len(path))
    ELSE BASE_DIR \o SLASH \o path

\* a check that lets every resolved path through
escapes_never(path) == FALSE

\* file_service.py:14: the resolved path does not start with the root
escapes(path) == ~starts_with(path, BASE_DIR)

MAX_ACCEPTANCE_CRITERIA_CHARS == 10000
MAX_CONTEXT_CHARS == 8000

\* FullQAFlowRequest.model_dump(): a dict keyed by the field names
model_dump(p) == [k \in DOMAIN p |-> p[k]]

\* the value of the first key of choices that the dict has, or default
get(data, choices, default) ==
    IF \E i \in DOMAIN choices : choices[i] \in DOMAIN data
    THEN data[choices[CHOOSE i \in DOMAIN choices :
                        /\ choices[i] \in DOMAIN data
                        /\ \A j \in 1..(i - 1) : choices[j] \notin DOMAIN data]]
    ELSE default

Missing == <<"missing">>

\* aliases that read acceptanceCriteria only under its snake-case name
criteria_aliases_snake_only == <<"acceptance_criteria">>

\* AliasChoices("acceptanceCriteria", "acceptance_criteria")
criteria_aliases == <<"acceptanceCriteria", "acceptance_criteria">>

\* FullQAFlowRequest.model_validate(data): the fields it reads
request_fields(data) ==
    [issueKey |-> get(data, <<"issueKey">>, Missing),
     acceptanceCriteria |-> get(data, criteria_aliases, Missing),
     context |-> get(data, <<"context">>, NoneStr),
     baseUrl |-> get(data, <<"baseUrl", "base_url">>, NoneStr),
     commentOnJira |-> get(data, <<"commentOnJira">>, TRUE),
     writePlaywrightFiles |-> get(data, <<"writePlaywrightFiles">>, TRUE),
     createAutomationTask |-> get(data, <<"createAutomationTask">>, TRUE),
     automationIssueType |-> get(data, <<"automationIssueType">>, TASK),
     automationSummaryPrefix |->
         get(data, <<"automationSummaryPrefix">>, SUMMARY_PREFIX)]

\* FullQAFlowRequest.model_validate(data) raises nothing
request_valid(data) ==
    LET p == request_fields(data) IN
    /\ p.issueKey # Missing
    /\ p.acceptanceCriteria # Missing
    /\ Len(p.acceptanceCriteria) >= 10
    /\ Len(p.acceptanceCriteria) <= MAX_ACCEPTANCE_CRITERIA_CHARS
    /\ (p.context = NoneStr \/ Len(p.context) <= MAX_CONTEXT_CHARS)

-----------------------------------------------------------------------------
(* State *)

env == <<entry, settings, pool, payload, x_api_key, background_tasks, other>>
generated == <<tests, playwright, automation_decision>>
created == <<task_created, used_issue_type, issue_type_warning>>
files == <<files_written, resolved, disk>>

NoResponse == [status_code |-> 0, body |-> None]

\* every credential of the generation backend and the tracker is configured
all_configured ==
    /\ settings.gemini_api_key
    /\ settings.jira_base_url
    /\ settings.jira_email
    /\ settings.jira_api_token
    /\ settings.jira_project_key

\* The requests of an endpoint: every request body with the configured
\* secret in its header, and one body with every secret and header.
requests(bodies, plain) ==
    /\ payload \in bodies
    /\ \/ settings.api_auth_token = SECRET /\ x_api_key = SECRET
       \/ payload = plain /\ all_configured

\* a call from inside the program: no header, no secret involved
direct_call ==
    /\ settings.api_auth_token = NoneStr
    /\ x_api_key = NoneStr

\* the workflow runs for the synchronous and for the asynchronous endpoint
runs_flow == entry \in {"full_qa_flow", "full_qa_flow_async"}

\* nothing has run yet: the locals are unset, nothing is written or printed
fresh_invocation ==
    /\ background_tasks = <<>>
    /\ resolved = <<>>
    /\ disk = {}
    /\ log = <<>>
    /\ tests = None
    /\ playwright = None
    /\ automation_decision = None
    /\ jira_comment = None
    /\ files_written = None
    /\ task_created = None
    /\ used_issue_type = NoneStr
    /\ issue_type_warning = NoneStr
    /\ message = NoneStr
    /\ http = IdleHttp
    /\ trace = <<>>
    /\ raised = NoExc
    /\ response = NoResponse

Init ==
    /\ settings \in SettingsSet
    /\ x_api_key \in {NoneStr, EMPTY, SECRET, WRONG_KEY}
    /\ \/ /\ entry = "full_qa_flow"
          /\ requests(FullQAFlowRequest, PLAIN_REQUEST)
          /\ pool = FlowPool
          /\ pc = "require_api_key"
       \/ /\ entry = "full_qa_flow_async"
          /\ requests({ p \in FullQAFlowRequest :
                         p.automationIssueType \in {TASK, SUB_TASK} },
                      PLAIN_REQUEST)
          /\ pool = FlowPool
          /\ pc = "require_api_key"
       \/ /\ entry = "generate_tests"
          /\ requests(GenerateTestsRequest,
                      [acceptanceCriteria |-> CRITERIA_PLAIN,
                       context |-> NoneStr])
          /\ settings.jira_base_url /\ settings.jira_email
          /\ settings.jira_api_token /\ settings.jira_project_key
          /\ pool = {}
          /\ pc = "require_api_key"
       \/ /\ entry = "health"
          /\ all_configured
          /\ payload = None
          /\ pool = {}
          /\ pc = "health"
       \/ /\ entry = "create_issue_with_fallback"
          /\ direct_call
          /\ payload \in FallbackArgs
          /\ pool = FallbackPool
          /\ pc = "create_task"
       \/ /\ entry = "tracker_op"
          /\ direct_call
          /\ payload \in OpArgs
          /\ pool = OpPool
          /\ pc = "call_op"
       \/ /\ entry = "write_playwright_files"
          /\ direct_call
          /\ all_configured
          /\ payload \in
               [files : { <<FileItemOf(PATH_LOGIN)>>,
                          <<FileItemOf(PATH_HOME), FileItemOf(PATH_LOGIN)>>,
                          <<FileItemOf(PATH_LOGIN), FileItemOf(PATH_HOME)>>,
                          <<>> }]
          /\ pool = {}
          /\ pc = "write_files"
    /\ fresh_invocation
    /\ other = None

\* the except clauses of an endpoint: a ValueError becomes 400, an
\* HTTPException keeps its status, anything else becomes 500
\* (jira.py:262-267, generation.py:45-50)
status_code_for(type) ==
    IF type = "ValueError" THEN 400
    ELSE IF type = "HTTPException" THEN 502
    ELSE 500

\* f"[jira/full-qa-flow-async] background error for {issue_key}: {exc}"
log_line(payload_data, msg) ==
    LOG_PREFIX \o get(payload_data, <<"issueKey">>, <<"u", "n", "k", "n", "o", "w", "n", "-", "i", "s", "s", "u", "e">>)
               \o COLON \o msg

\* a handler that catches nothing but ValueError
catches_value_error_only(type) == type = "ValueError"

\* jira.py:274: except Exception
caught_in_background(type) ==
    type \in {"ValueError", "RuntimeError", "HTTPException", "Exception"}

\* An exception leaves the invoked function.  An endpoint answers with the
\* status of its except clauses; _run_full_qa_flow_background catches the
\* exception and prints it (jira.py:274-276).
Raise(type, msg) ==
    IF entry = "full_qa_flow_async" /\ caught_in_background(type)
    THEN /\ pc' = "logged"
         /\ log' = Append(log, log_line(background_tasks[1].payload_data, msg))
         /\ UNCHANGED <<raised, response>>
    ELSE /\ pc' = "failed"
         /\ raised' = [type |-> type, message |-> msg]
         /\ response' = IF entry \in {"full_qa_flow", "generate_tests"}
                        THEN [status_code |-> status_code_for(type),
                              body |-> None]
                        ELSE NoResponse
         /\ UNCHANGED log

Goto(p) == pc' = p /\ UNCHANGED <<raised, response, log>>

-----------------------------------------------------------------------------
(* Operations recorded in trace *)

generate_event(prompt) == [op |-> "generate", prompt |-> prompt]

comment_event(issue_key, comment) ==
    [op |-> "jira_add_comment", issue_key |-> issue_key, comment |-> comment]

create_event(summary, description, issue_type, parent_key) ==
    [op |-> "jira_create_issue", summary |-> summary,
     description |-> description, issue_type |-> issue_type,
     parent_key |-> parent_key]

link_event(inward_issue_key, outward_issue_key, link_type_name) ==
    [op |-> "jira_link_issues", inward_issue_key |-> inward_issue_key,
     outward_issue_key |-> outward_issue_key,
     link_type_name |-> link_type_name]

write_event == [op |-> "write_playwright_files"]

-----------------------------------------------------------------------------
(* The retrying session *)

\* a session that forgets the retries it has made
session_post_forgetting_retries ==
    /\ http.active
    /\ \E r \in pool :
         IF is_retry(r.status) /\ http.retries_left > 0
         THEN http' = [http EXCEPT !.statuses = <<r.status>>]
         ELSE http' = [http EXCEPT !.statuses = Append(@, r.status),
                                   !.active = FALSE, !.response = r]
    /\ UNCHANGED <<env, generated, jira_comment, files, created,
                   message, trace, pc, raised, response, log>>

\* One request of SESSION.post and what the Retry adapter does with the
\* response: a forcelist status is retried while retries remain, any other
\* response (or the last one, raise_on_status=False) is returned.
session_post ==
    /\ http.active
    /\ \E r \in pool :
         LET seen == Append(http.statuses, r.status) IN
         IF is_retry(r.status) /\ http.retries_left > 0
         THEN http' = [http EXCEPT !.statuses = seen,
                                   !.retries_left = @ - 1]
         ELSE http' = [http EXCEPT !.statuses = seen, !.active = FALSE,
                                   !.response = r]
    /\ UNCHANGED <<env, generated, jira_comment, files, created,
                   message, trace, pc, raised, response, log>>

\* A tracker operation is invoked: jira_auth, then SESSION.post.
call_tracker(event, request, include_project_key, ret) ==
    /\ trace' = Append(trace, event)
    /\ IF jira_auth(include_project_key) # NoneStr
       THEN Raise("RuntimeError", jira_auth(include_project_key))
            /\ UNCHANGED http
       ELSE begin_post(event.op, request, ret)
            /\ UNCHANGED <<raised, response, log>>

\* The status check of a tracker operation whose exchange has ended.
tracker_returns(next) ==
    IF request_failed(http.response)
    THEN Raise("RuntimeError", error_message(http.op, http.response))
    ELSE Goto(next)

-----------------------------------------------------------------------------
(* Direct call of one tracker operation *)

op_event(op) ==
    IF op = "jira_add_comment" THEN comment_event(ORIGIN_KEY, "scenarios")
    ELSE IF op = "jira_create_issue"
         THEN create_event(SUMMARY_PREFIX, DESCRIPTION, TASK, NoneStr)
         ELSE link_event(ORIGIN_KEY, CREATED_KEY, RELATES)

op_request(op) ==
    IF op = "jira_add_comment" THEN comment_request(ORIGIN_KEY, "scenarios")
    ELSE IF op = "jira_create_issue"
         THEN create_request(SUMMARY_PREFIX, DESCRIPTION, TASK, NoneStr)
         ELSE link_request(ORIGIN_KEY, CREATED_KEY, RELATES)

CallOp ==
    /\ entry = "tracker_op"
    /\ pc = "call_op"
    /\ call_tracker(op_event(payload.op), op_request(payload.op),
                    payload.op = "jira_create_issue", "op_ret")
    /\ UNCHANGED <<env, generated, jira_comment, files, created,
                   message>>

OpReturn ==
    /\ pc = "op_ret"
    /\ ~http.active
    /\ tracker_returns("done")
    /\ UNCHANGED <<env, generated, jira_comment, files, created,
                   message, http, trace>>

-----------------------------------------------------------------------------
(* _create_issue_with_fallback: routers/jira.py:31-59 *)

\* its arguments: those of the direct call, or those the workflow passes
arg_summary ==
    IF runs_flow
    THEN payload.issueKey \o BAR \o payload.automationSummaryPrefix
    ELSE payload.summary

arg_description ==
    IF runs_flow THEN DESCRIPTION ELSE payload.description

arg_issue_type ==
    IF runs_flow THEN payload.automationIssueType
    ELSE payload.issue_type

arg_parent_key ==
    IF runs_flow THEN payload.issueKey ELSE payload.parent_key

\* a fallback condition that forgets the sub-task test
fallback_applies_any_type(issue_type, msg) ==
    contains(lower(msg), VALID_ISSUE_TYPE)

\* the condition of jira.py:49
fallback_applies(issue_type, msg) ==
    is_subtask(issue_type) /\ contains(lower(msg), VALID_ISSUE_TYPE)

\* a fallback that asks for the requested issue type again
fallback_issue_type_as_requested == arg_issue_type

\* jira.py:50
fallback_issue_type == TASK

\* jira.py:51-57: the second jira_create_issue call
second_create(tr) ==
    LET description == arg_description \o FALLBACK_NOTE IN
    /\ trace' = Append(tr, create_event(arg_summary, description,
                                        fallback_issue_type, NoneStr))
    /\ IF jira_auth(TRUE) # NoneStr
       THEN Raise("RuntimeError", jira_auth(TRUE)) /\ UNCHANGED http
       ELSE begin_post("jira_create_issue",
                       create_request(arg_summary, description,
                                      fallback_issue_type, NoneStr),
                       "create_fallback_ret")
            /\ UNCHANGED <<raised, response, log>>

\* jira.py:46-59: except RuntimeError as exc
create_failed(tr, msg) ==
    IF fallback_applies(arg_issue_type, msg)
    THEN message' = msg /\ second_create(tr)
    ELSE /\ Raise("RuntimeError", msg)
         /\ trace' = tr
         /\ UNCHANGED <<http, message>>

\* jira.py:38-44: the first jira_create_issue call
first_create ==
    LET tr == Append(trace, create_event(arg_summary, arg_description,
                                         arg_issue_type, arg_parent_key)) IN
    IF jira_auth(TRUE) # NoneStr
    THEN create_failed(tr, jira_auth(TRUE))
    ELSE /\ trace' = tr
         /\ begin_post("jira_create_issue",
                       create_request(arg_summary, arg_description,
                                      arg_issue_type, arg_parent_key),
                       "create_first_ret")
         /\ UNCHANGED <<raised, response, log, message>>

\* a workflow that writes the files once more after the issue was created
after_create_writing_again == IF runs_flow THEN "write_files" ELSE "done"

\* jira.py:119: the workflow goes on with the link step
after_create == IF runs_flow THEN "link" ELSE "done"

\* a gate that ignores the decision
create_gate_toggle_only == payload.createAutomationTask

\* a gate that opens when either the toggle or the decision says yes
create_gate_either ==
    \/ payload.createAutomationTask
    \/ automation_decision.shouldCreateAutomationTask

\* jira.py:101: the gate of stage 6
create_gate ==
    /\ payload.createAutomationTask
    /\ automation_decision.shouldCreateAutomationTask

\* jira.py:100-117: the gate of stage 6 and the call of
\* _create_issue_with_fallback; a direct call has no gate
CreateTask ==
    /\ pc = "create_task"
    /\ IF runs_flow /\ ~create_gate
       THEN Goto("aggregate") /\ UNCHANGED <<trace, http, message>>
       ELSE first_create
    /\ UNCHANGED <<env, generated, jira_comment, files, created>>

\* jira.py:45-59: the first attempt has returned
CreateFirstReturn ==
    /\ pc = "create_first_ret"
    /\ ~http.active
    /\ IF request_failed(http.response)
       THEN /\ create_failed(trace, error_message(http.op, http.response))
            /\ UNCHANGED created
       ELSE /\ task_created' = [key |-> http.response.key]
            /\ used_issue_type' = arg_issue_type
            /\ issue_type_warning' = NoneStr
            /\ Goto(after_create)
            /\ UNCHANGED <<trace, http, message>>
    /\ UNCHANGED <<env, generated, jira_comment, files>>

\* a fallback that returns no warning
CreateFallbackReturn_without_warning ==
    /\ pc = "create_fallback_ret"
    /\ ~http.active
    /\ IF request_failed(http.response)
       THEN /\ Raise("RuntimeError", error_message(http.op, http.response))
            /\ UNCHANGED created
       ELSE /\ task_created' = [key |-> http.response.key]
            /\ used_issue_type' = fallback_issue_type
            /\ issue_type_warning' = NoneStr
            /\ Goto(after_create)
    /\ UNCHANGED <<env, generated, jira_comment, files, message,
                   trace, http>>

\* jira.py:51-58: the fallback attempt has returned
CreateFallbackReturn ==
    /\ pc = "create_fallback_ret"
    /\ ~http.active
    /\ IF request_failed(http.response)
       THEN /\ Raise("RuntimeError", error_message(http.op, http.response))
            /\ UNCHANGED created
       ELSE /\ task_created' = [key |-> http.response.key]
            /\ used_issue_type' = fallback_issue_type
            /\ issue_type_warning' = message
            /\ Goto(after_create)
    /\ UNCHANGED <<env, generated, jira_comment, files, message,
                   trace, http>>

-----------------------------------------------------------------------------
(* _run_full_qa_flow: routers/jira.py:62-144 *)

\* a check that compares the text as it was typed
untrusted_case_sensitive(text) ==
    \E marker \in PROMPT_INJECTION_MARKERS : contains(text, marker)

\* _validate_untrusted_input raises for the text
untrusted(text) ==
    \E marker \in PROMPT_INJECTION_MARKERS : contains(lower(text), marker)

\* build_*_prompt raises ValueError for the request
prompt_rejected ==
    \/ untrusted(payload.acceptanceCriteria)
    \/ truthy(payload.context) /\ untrusted(payload.context)

\* a backend call that is made a second time
before_backend_calling_twice(prompt) ==
    IF prompt_rejected
    THEN Raise("ValueError", MSG_INJECTION) /\ UNCHANGED trace
    ELSE IF ~settings.gemini_api_key
         THEN Raise("RuntimeError", MSG_MISSING_GEMINI) /\ UNCHANGED trace
         ELSE trace' = Append(Append(trace, generate_event(prompt)),
                              generate_event(prompt))

\* build_*_prompt, then call_llm up to the backend call: raises, or calls
before_backend(prompt) ==
    IF prompt_rejected
    THEN Raise("ValueError", MSG_INJECTION) /\ UNCHANGED trace
    ELSE IF ~settings.gemini_api_key
         THEN Raise("RuntimeError", MSG_MISSING_GEMINI) /\ UNCHANGED trace
         ELSE trace' = Append(trace, generate_event(prompt))

backend_called == ~prompt_rejected /\ settings.gemini_api_key

\* jira.py:63-65
GenerateScenarios ==
    /\ runs_flow
    /\ pc = "generate_tests"
    /\ before_backend("tests")
    /\ IF backend_called
       THEN \/ Raise("Exception", MSG_BACKEND) /\ UNCHANGED tests
            \/ \E text \in TestsTexts :
                 IF tests_valid(text)
                 THEN tests' = text /\ Goto("comment_tests")
                 ELSE Raise("ValueError", MSG_SCHEMA) /\ UNCHANGED tests
       ELSE UNCHANGED tests
    /\ UNCHANGED <<env, playwright, automation_decision, jira_comment,
                   files, created, message, http>>

\* jira.py:67-70
CommentScenarios ==
    /\ pc = "comment_tests"
    /\ IF payload.commentOnJira
       THEN call_tracker(comment_event(payload.issueKey, "scenarios"),
                         comment_request(payload.issueKey, "scenarios"),
                         FALSE, "comment_tests_ret")
       ELSE Goto("generate_playwright") /\ UNCHANGED <<trace, http>>
    /\ UNCHANGED <<env, generated, jira_comment, files, created,
                   message>>

\* jira.py:70-71
CommentScenariosReturn ==
    /\ pc = "comment_tests_ret"
    /\ ~http.active
    /\ tracker_returns("generate_playwright")
    /\ jira_comment' = IF request_failed(http.response) THEN jira_comment
                       ELSE [issueKey |-> payload.issueKey,
                             status |-> "comment_added"]
    /\ UNCHANGED <<env, generated, files, created, message, http,
                   trace>>

\* jira.py:73-77
GeneratePlaywright ==
    /\ pc = "generate_playwright"
    /\ before_backend("playwright")
    /\ IF backend_called
       THEN \/ Raise("Exception", MSG_BACKEND) /\ UNCHANGED playwright
            \/ \E text \in PlaywrightTexts :
                 IF playwright_valid(text)
                 THEN playwright' = playwright_validated(text)
                      /\ Goto("generate_decision")
                 ELSE Raise("ValueError", playwright_error(text))
                      /\ UNCHANGED playwright
       ELSE UNCHANGED playwright
    /\ UNCHANGED <<env, tests, automation_decision, jira_comment,
                   files, created, message, http>>

\* jira.py:79-85
GenerateDecision ==
    /\ pc = "generate_decision"
    /\ before_backend("decision")
    /\ IF backend_called
       THEN \/ Raise("Exception", MSG_BACKEND) /\ UNCHANGED automation_decision
            \/ \E text \in DecisionTexts :
                 IF decision_valid(text)
                 THEN automation_decision' = text /\ Goto("comment_decision")
                 ELSE Raise("ValueError", MSG_SCHEMA)
                      /\ UNCHANGED automation_decision
       ELSE UNCHANGED automation_decision
    /\ UNCHANGED <<env, tests, playwright, jira_comment, files,
                   created, message, http>>

\* jira.py:86-94
CommentDecision ==
    /\ pc = "comment_decision"
    /\ IF payload.commentOnJira
       THEN call_tracker(comment_event(payload.issueKey, "decision"),
                         comment_request(payload.issueKey, "decision"),
                         FALSE, "comment_decision_ret")
       ELSE Goto("write_files") /\ UNCHANGED <<trace, http>>
    /\ UNCHANGED <<env, generated, jira_comment, files, created,
                   message>>

\* jira.py:94
CommentDecisionReturn ==
    /\ pc = "comment_decision_ret"
    /\ ~http.active
    /\ tracker_returns("write_files")
    /\ UNCHANGED <<env, generated, jira_comment, files, created,
                   message, http, trace>>

\* file_service.write_playwright_files: the loop over the files.
\* links_met is what tests/auth under the root can be when a path is
\* resolved: a directory ("none"), a symlink to a directory elsewhere
\* ("outside"), or a symlink to a directory next to the root ("sibling").
\* stop is the first file whose resolved path fails the check of
\* file_service.py:14, or one more than the number of files.
write_playwright_files(arg_files, links_met, next) ==
    \E links \in links_met :
        LET paths == [i \in DOMAIN arg_files |->
                        resolve(links, arg_files[i].path)]
            stop == IF \E i \in DOMAIN paths : escapes(paths[i])
                    THEN CHOOSE i \in DOMAIN paths :
                            /\ escapes(paths[i])
                            /\ \A j \in 1..(i - 1) : ~escapes(paths[j])
                    ELSE Len(paths) + 1
        IN  /\ trace' = Append(trace, write_event)
            /\ disk' = disk \cup { paths[i] : i \in 1..(stop - 1) }
            /\ IF stop <= Len(paths)
               THEN /\ resolved' = SubSeq(paths, 1, stop)
                    /\ Raise("ValueError", MSG_ESCAPE)
                    /\ UNCHANGED files_written
               ELSE /\ resolved' = paths
                    /\ files_written' = [list |-> paths]
                    /\ Goto(next)

\* jira.py:96-98 with file_service.write_playwright_files, or a direct call
WriteFiles ==
    /\ pc = "write_files"
    /\ IF runs_flow
       THEN IF payload.writePlaywrightFiles
            THEN write_playwright_files(playwright.files,
                                        {"none", "outside"}, "create_task")
            ELSE Goto("create_task") /\ UNCHANGED <<trace, files>>
       ELSE write_playwright_files(payload.files,
                                   {"none", "outside", "sibling"}, "done")
    /\ UNCHANGED <<env, generated, jira_comment, created, message, http>>

\* a link step that forgets the sub-task test
needs_link_any_type == truthy(task_created.key)

\* jira.py:120-122: the created issue is linked back to the origin issue
needs_link == ~is_subtask(used_issue_type) /\ truthy(task_created.key)

\* jira.py:119-127
LinkCreated ==
    /\ pc = "link"
    /\ IF needs_link
       THEN call_tracker(
                link_event(payload.issueKey, task_created.key, RELATES),
                link_request(payload.issueKey, task_created.key, RELATES),
                FALSE, "link_ret")
       ELSE Goto("disclose") /\ UNCHANGED <<trace, http>>
    /\ UNCHANGED <<env, generated, jira_comment, files, created,
                   message>>

\* a link step whose failure is swallowed
LinkReturn_ignoring_failure ==
    /\ pc = "link_ret"
    /\ ~http.active
    /\ Goto("disclose")
    /\ UNCHANGED <<env, generated, jira_comment, files, created,
                   message, http, trace>>

\* jira.py:123-127
LinkReturn ==
    /\ pc = "link_ret"
    /\ ~http.active
    /\ tracker_returns("disclose")
    /\ UNCHANGED <<env, generated, jira_comment, files, created,
                   message, http, trace>>

\* a disclosure made for every issue that is not a sub-task
discloses_non_subtask == ~is_subtask(used_issue_type)

\* a disclosure that is made only when comments were asked for
discloses_when_commenting ==
    truthy(issue_type_warning) /\ payload.commentOnJira

\* jira.py:128: the fallback is disclosed on the origin issue
discloses == truthy(issue_type_warning)

\* jira.py:128-134
DiscloseFallback ==
    /\ pc = "disclose"
    /\ IF discloses
       THEN call_tracker(comment_event(payload.issueKey, "fallback"),
                         comment_request(payload.issueKey, "fallback"),
                         FALSE, "disclose_ret")
       ELSE Goto("aggregate") /\ UNCHANGED <<trace, http>>
    /\ UNCHANGED <<env, generated, jira_comment, files, created,
                   message>>

\* jira.py:129-134
DiscloseReturn ==
    /\ pc = "disclose_ret"
    /\ ~http.active
    /\ tracker_returns("aggregate")
    /\ UNCHANGED <<env, generated, jira_comment, files, created,
                   message, http, trace>>

\* a result that never reports the comment
flow_result_without_comment ==
    [status |-> "ok",
     automationDecision |-> automation_decision,
     jiraComment |-> None,
     tests |-> tests,
     playwright |-> playwright,
     filesWritten |-> files_written,
     automationTask |-> task_created]

\* jira.py:136-144: the dict _run_full_qa_flow returns
flow_result ==
    [status |-> "ok",
     automationDecision |-> automation_decision,
     jiraComment |-> jira_comment,
     tests |-> tests,
     playwright |-> playwright,
     filesWritten |-> files_written,
     automationTask |-> task_created]

\* jira.py:136-144: jira_full_qa_flow answers 200 with the dict, and
\* _run_full_qa_flow_background drops it
Aggregate ==
    /\ pc = "aggregate"
    /\ pc' = "done"
    /\ response' = IF entry = "full_qa_flow"
                   THEN [status_code |-> 200, body |-> flow_result]
                   ELSE response
    /\ UNCHANGED <<env, generated, jira_comment, files, created,
                   message, http, trace, raised, log>>

-----------------------------------------------------------------------------
(* The endpoints: security.py, routers/generation.py, routers/jira.py *)

\* a check that admits every request that carries some key
api_key_admitted_any_key ==
    \/ ~truthy(settings.api_auth_token)
    \/ truthy(x_api_key)

\* security.require_api_key raises nothing
api_key_admitted ==
    \/ ~truthy(settings.api_auth_token)
    \/ truthy(x_api_key) /\ x_api_key = settings.api_auth_token

\* security.py:6-13, the dependency of every endpoint but /health
RequireApiKey ==
    /\ pc = "require_api_key"
    /\ IF api_key_admitted
       THEN Goto(IF entry = "full_qa_flow" THEN "generate_tests"
                 ELSE IF entry = "full_qa_flow_async" THEN "add_task"
                 ELSE "endpoint_generate_tests")
       ELSE /\ pc' = "rejected"
            /\ raised' = [type |-> "HTTPException",
                          message |-> <<"U", "n", "a", "u", "t", "h", "o", "r", "i", "z", "e", "d">>]
            /\ response' = [status_code |-> 401, body |-> None]
            /\ UNCHANGED log
    /\ UNCHANGED <<env, generated, jira_comment, files, created, message,
                   http, trace>>

\* generation.py:22-24
Health ==
    /\ pc = "health"
    /\ pc' = "done"
    /\ response' = [status_code |-> 200, body |-> [status |-> "ok"]]
    /\ UNCHANGED <<env, generated, jira_comment, files, created, message,
                   http, trace, raised, log>>

\* generation.py:32-50
GenerateTestsEndpoint ==
    /\ entry = "generate_tests"
    /\ pc = "endpoint_generate_tests"
    /\ before_backend("tests")
    /\ IF backend_called
       THEN \/ Raise("Exception", MSG_BACKEND)
            \/ \E text \in TestsTexts :
                 IF tests_valid(text)
                 THEN /\ pc' = "done"
                      /\ response' = [status_code |-> 200, body |-> text]
                      /\ UNCHANGED <<raised, log>>
                 ELSE Raise("HTTPException", <<"M", "o", "d", "e", "l", " ", "o", "u", "t", "p", "u", "t", " ", "d", 
                                               "i", "d", " ", "n", "o", 
                                               "t", " ", "m", "a", "t", 
                                               "c", "h", " ", "t", "h", 
                                               "e", " ", "e", "x", "p", 
                                               "e", "c", "t", "e", "d", 
                                               " ", "s", "c", "h", "e", 
                                               "m", "a", ".">>)
       ELSE TRUE
    /\ UNCHANGED <<env, generated, jira_comment, files, created, message,
                   http>>

\* jira.py:285-292: the task is added and the request is answered
AddTask ==
    /\ pc = "add_task"
    /\ background_tasks' =
         Append(background_tasks,
                [func |-> "_run_full_qa_flow_background",
                 payload_data |-> model_dump(payload)])
    /\ response' =
         [status_code |-> 200,
          body |-> [status |-> "accepted", mode |-> "async",
                    issueKey |-> payload.issueKey, message |-> MSG_STARTED]]
    /\ pc' = "background"
    /\ UNCHANGED <<entry, settings, pool, payload, x_api_key, other, generated,
                   jira_comment, files, created, message, http, trace,
                   raised, log>>

\* jira.py:270-276: the task starts after the response was sent
RunBackground ==
    /\ pc = "background"
    /\ LET payload_data == background_tasks[1].payload_data IN
       IF request_valid(payload_data)
       THEN /\ payload' = request_fields(payload_data)
            /\ pc' = "generate_tests"
            /\ UNCHANGED log
       ELSE /\ log' = Append(log, log_line(payload_data, <<"v", "a", "l", "i", "d", "a", "t", "i", "o", "n", " ", "e", "r", "r", 
                                                           "o", "r", 
                                                           " ", "f", 
                                                           "o", "r", 
                                                           " ", "F", 
                                                           "u", "l", 
                                                           "l", "Q", 
                                                           "A", "F", 
                                                           "l", "o", 
                                                           "w", "R", 
                                                           "e", "q", 
                                                           "u", "e", 
                                                           "s", "t">>))
            /\ pc' = "logged"
            /\ UNCHANGED payload
    /\ UNCHANGED <<entry, settings, pool, x_api_key, background_tasks, other,
                   generated, jira_comment, files, created, message, http,
                   trace, raised, response>>

-----------------------------------------------------------------------------

Next ==
    \/ GenerateScenarios
    \/ CommentScenarios
    \/ CommentScenariosReturn
    \/ GeneratePlaywright
    \/ GenerateDecision
    \/ CommentDecision
    \/ CommentDecisionReturn
    \/ WriteFiles
    \/ CreateTask
    \/ CreateFirstReturn
    \/ CreateFallbackReturn
    \/ LinkCreated
    \/ LinkReturn
    \/ DiscloseFallback
    \/ DiscloseReturn
    \/ Aggregate
    \/ RequireApiKey
    \/ Health
    \/ GenerateTestsEndpoint
    \/ AddTask
    \/ RunBackground
    \/ CallOp
    \/ OpReturn
    \/ session_post

Spec == Init /\ [][Next]_vars

-----------------------------------------------------------------------------
(* Two invocations of the workflow in one process *)

\* What belongs to one invocation: the request FastAPI parsed for it, its
\* BackgroundTasks object, the locals of _run_full_qa_flow and of the
\* functions it calls (the exchange of a SESSION.post included: urllib3
\* counts the retries per request), and what its caller receives.  The
\* settings (settings.py:26-37, cached and frozen), the tracker, the
\* directory on disk and the standard output are those of the process.
frame ==
    [entry |-> entry, payload |-> payload, x_api_key |-> x_api_key,
     background_tasks |-> background_tasks, pc |-> pc, tests |-> tests,
     playwright |-> playwright, automation_decision |-> automation_decision,
     jira_comment |-> jira_comment, files_written |-> files_written,
     resolved |-> resolved, task_created |-> task_created,
     used_issue_type |-> used_issue_type,
     issue_type_warning |-> issue_type_warning, http |-> http,
     message |-> message, trace |-> trace, raised |-> raised,
     response |-> response]

\* a scheduler whose threads share the exchange of the session
Switch_sharing_exchange ==
    /\ other' = frame
    /\ entry' = other.entry
    /\ payload' = other.payload
    /\ x_api_key' = other.x_api_key
    /\ background_tasks' = other.background_tasks
    /\ pc' = other.pc
    /\ tests' = other.tests
    /\ playwright' = other.playwright
    /\ automation_decision' = other.automation_decision
    /\ jira_comment' = other.jira_comment
    /\ files_written' = other.files_written
    /\ resolved' = other.resolved
    /\ task_created' = other.task_created
    /\ used_issue_type' = other.used_issue_type
    /\ issue_type_warning' = other.issue_type_warning
    /\ message' = other.message
    /\ trace' = other.trace
    /\ raised' = other.raised
    /\ response' = other.response
    /\ UNCHANGED <<settings, pool, disk, log, http>>

\* The thread of the other invocation is scheduled (endpoints declared with
\* def and background tasks run in the worker threads of the server): the
\* running invocation is suspended where it is and the other one goes on
\* where it was.
Switch ==
    /\ other' = frame
    /\ entry' = other.entry
    /\ payload' = other.payload
    /\ x_api_key' = other.x_api_key
    /\ background_tasks' = other.background_tasks
    /\ pc' = other.pc
    /\ tests' = other.tests
    /\ playwright' = other.playwright
    /\ automation_decision' = other.automation_decision
    /\ jira_comment' = other.jira_comment
    /\ files_written' = other.files_written
    /\ resolved' = other.resolved
    /\ task_created' = other.task_created
    /\ used_issue_type' = other.used_issue_type
    /\ issue_type_warning' = other.issue_type_warning
    /\ http' = other.http
    /\ message' = other.message
    /\ trace' = other.trace
    /\ raised' = other.raised
    /\ response' = other.response
    /\ UNCHANGED <<settings, pool, disk, log>>

\* a synchronous or background run for one issue and a background run that
\* asks for a sub-task on another issue, both admitted, with a tracker that
\* accepts or rejects a request
ConcInit ==
    /\ settings \in SettingsSet
    /\ all_configured
    /\ direct_call
    /\ entry \in {"full_qa_flow", "full_qa_flow_async"}
    /\ payload = PLAIN_REQUEST
    /\ pool = {Resp(201, TEXT_OK, CREATED_KEY),
               Resp(400, TEXT_VALID_TYPE, NoneStr)}
    /\ pc = "require_api_key"
    /\ fresh_invocation
    /\ other = [frame EXCEPT
                  !.entry = "full_qa_flow_async",
                  !.payload = [PLAIN_REQUEST EXCEPT
                                 !.issueKey = OTHER_KEY,
                                 !.automationIssueType = SUB_TASK]]

ConcNext ==
    \/ RequireApiKey
    \/ AddTask
    \/ RunBackground
    \/ GenerateScenarios
    \/ CommentScenarios
    \/ CommentScenariosReturn
    \/ GeneratePlaywright
    \/ GenerateDecision
    \/ CommentDecision
    \/ CommentDecisionReturn
    \/ WriteFiles
    \/ CreateTask
    \/ CreateFirstReturn
    \/ CreateFallbackReturn
    \/ LinkCreated
    \/ LinkReturn
    \/ DiscloseFallback
    \/ DiscloseReturn
    \/ Aggregate
    \/ session_post
    \/ Switch

ConcSpec == ConcInit /\ [][ConcNext]_vars

\* One invocation is one thread of control: a step that can be taken is
\* taken, and SESSION.post returns for every request (timeout=30).
LiveSpec == Spec /\ WF_vars(Next)

-----------------------------------------------------------------------------
(* Properties *)

IsFlow == entry = "full_qa_flow"

EventsOf(tr, op) == SelectSeq(tr, LAMBDA e : e.op = op)
CountOf(tr, op) == Len(EventsOf(tr, op))

LinkEvents == EventsOf(trace, "jira_link_issues")
DisclosureEvents ==
    SelectSeq(trace, LAMBDA e : e.op = "jira_add_comment"
                                /\ e.comment = "fallback")

SubtaskVariants == {SUB_TASK, SUBTASK_MIXED}
ValidTypeTexts == {TEXT_VALID_TYPE, TEXT_VALID_TYPE_CAPS}
TransientStatuses == {429, 500, 502, 503, 504}

\* the request toggle and the validated decision both say yes
Gate ==
    /\ payload.createAutomationTask
    /\ automation_decision # None
    /\ automation_decision.shouldCreateAutomationTask

AllTrackerSettings ==
    /\ settings.jira_base_url
    /\ settings.jira_email
    /\ settings.jira_api_token
    /\ settings.jira_project_key

\* stage 1 is over without a well-formed scenario set
Stage1Failed ==
    /\ IsFlow
    /\ pc \notin {"require_api_key", "rejected", "generate_tests"}
    /\ (tests = None \/ ~tests.wellformed)

\* C1: when scenario generation fails or its output is not a valid
\* ScenarioSet, the synchronous workflow ends with an error and nothing else
\* has happened: no tracker call, no file write, no further generation call.
C1_Stage1FailureIsFatal ==
    Stage1Failed =>
        /\ pc = "failed"
        /\ response.status_code \in {400, 500}
        /\ Len(trace) <= 1
        /\ \A i \in DOMAIN trace : trace[i] = generate_event("tests")
        /\ http = IdleHttp
        /\ jira_comment = None
        /\ files_written = None
        /\ task_created = None

C1_Witness ==
    /\ IsFlow
    /\ pc = "failed"
    /\ tests = None
    /\ trace = <<generate_event("tests")>>
    /\ raised.message = MSG_SCHEMA
    /\ response.status_code = 400

\* C2: the synchronous entry point returns an error only when stage 1
\* failed; a failure of any later stage is caught and the call still
\* returns a result.
C2_OnlyStage1IsFatal ==
    (IsFlow /\ pc = "failed") => tests = None

AfterGate ==
    {"create_first_ret", "create_fallback_ret", "link", "link_ret",
     "disclose", "disclose_ret", "aggregate", "done"}

C3_Invariant ==
    IsFlow =>
        /\ CountOf(trace, "jira_create_issue") > 0 => Gate
        /\ (pc \in AfterGate /\ Gate) => CountOf(trace, "jira_create_issue") >= 1
        /\ (pc \in AfterGate /\ ~Gate) =>
               /\ CountOf(trace, "jira_create_issue") = 0
               /\ task_created = None
        /\ (pc = "done" /\ ~Gate) => response.body.automationTask = None

C3_GateStep ==
    (IsFlow /\ pc = "create_task") =>
        (Gate <=> CountOf(trace', "jira_create_issue") >= 1)

\* C3: in a workflow that reaches stage 6, create-issue is invoked if and
\* only if createAutomationTask is true and the validated decision has
\* shouldCreateAutomationTask true; otherwise create-issue is never invoked
\* and automationTask in the result is null.
C3_CreateIffToggleAndDecision == []C3_Invariant /\ [][C3_GateStep]_vars

C3_Witness ==
    /\ IsFlow
    /\ pc = "done"
    /\ Gate
    /\ CountOf(trace, "jira_create_issue") = 1
    /\ response.body.automationTask = [key |-> CREATED_KEY]

ManualOnly ==
    /\ IsFlow
    /\ automation_decision # None
    /\ automation_decision.recommendedCoverage = "manual_only"

\* C4 as stated: with a validated decision of manual_only the orchestrator
\* never invokes _create_issue_with_fallback, whatever the toggle and
\* shouldCreateAutomationTask say.
C4_ManualOnlyNeverCreates ==
    ManualOnly => CountOf(trace, "jira_create_issue") = 0

\* C4, amended: with a validated decision of manual_only whose
\* shouldCreateAutomationTask is false the orchestrator never invokes
\* _create_issue_with_fallback, even if createAutomationTask is true.
C4_ManualOnlyDeclinedNeverCreates ==
    (ManualOnly /\ ~automation_decision.shouldCreateAutomationTask) =>
        /\ CountOf(trace, "jira_create_issue") = 0
        /\ task_created = None

C4_Witness ==
    /\ ManualOnly
    /\ ~automation_decision.shouldCreateAutomationTask
    /\ payload.createAutomationTask
    /\ pc = "done"
    /\ CountOf(trace, "jira_create_issue") = 0

\* the first attempt has failed in the way that calls for the fallback
FirstFailedForFallback ==
    /\ pc = "create_first_ret"
    /\ ~http.active
    /\ http.response.status >= 300
    /\ arg_issue_type \in SubtaskVariants
    /\ http.response.text \in ValidTypeTexts

C5_RetryStep ==
    FirstFailedForFallback =>
        /\ pc' = "create_fallback_ret"
        /\ trace' = Append(trace, create_event(arg_summary,
                                               arg_description \o FALLBACK_NOTE,
                                               TASK, NoneStr))
        /\ http'.active
        /\ http'.request.issuetype = TASK
        /\ http'.request.parent = NoneStr

C5_ReturnStep ==
    (pc = "create_fallback_ret" /\ ~http.active /\ http.response.status < 300)
        => /\ pc' = after_create
           /\ task_created' = [key |-> http.response.key]
           /\ used_issue_type' = TASK
           /\ issue_type_warning' # NoneStr
           /\ CountOf(trace', "jira_create_issue") = 2

\* C5: _create_issue_with_fallback called with a sub-task issue type (in any
\* letter case) whose first attempt fails with a message containing "valid
\* issue type" retries exactly once with issue type Task and no parent, and
\* when the retry succeeds returns its issue, "Task" and a non-null warning.
C5_FallbackToTask ==
    /\ [][C5_RetryStep /\ C5_ReturnStep]_vars
    /\ [](CountOf(trace, "jira_create_issue") <= 2)

C5_Witness ==
    /\ entry = "create_issue_with_fallback"
    /\ pc = "done"
    /\ payload.issue_type = SUBTASK_MIXED
    /\ used_issue_type = TASK
    /\ contains(issue_type_warning, TEXT_VALID_TYPE_CAPS)
    /\ task_created = [key |-> CREATED_KEY]
    /\ CountOf(trace, "jira_create_issue") = 2

C6_ResponseStep ==
    ( /\ entry # "full_qa_flow_async"
      /\ pc = "create_first_ret"
      /\ ~http.active
      /\ http.response.status >= 300
      /\ ~(arg_issue_type \in SubtaskVariants
           /\ http.response.text \in ValidTypeTexts) )
        => /\ pc' = "failed"
           /\ raised' = [type |-> "RuntimeError",
                         message |-> error_message("jira_create_issue",
                                                   http.response)]
           /\ trace' = trace
           /\ http' = http

C6_SettingsStep ==
    (entry # "full_qa_flow_async" /\ pc = "create_task"
     /\ (~IsFlow \/ Gate) /\ ~AllTrackerSettings)
        => /\ pc' = "failed"
           /\ raised'.type = "RuntimeError"
           /\ raised'.message \in {MSG_MISSING_ENV, MSG_MISSING_PROJECT}
           /\ CountOf(trace', "jira_create_issue") = 1
           /\ http' = http

\* C6: when the first create attempt fails and the fallback condition does
\* not hold (the message lacks "valid issue type" or the requested type is
\* not a sub-task), the same failure is re-raised and no second create
\* attempt is made.
C6_OtherFailuresPropagate ==
    /\ [][C6_ResponseStep /\ C6_SettingsStep]_vars
    /\ [](message = NoneStr => CountOf(trace, "jira_create_issue") <= 1)

C6_Witness ==
    /\ entry = "create_issue_with_fallback"
    /\ pc = "failed"
    /\ payload.issue_type = TASK
    /\ http.response = Resp(400, TEXT_VALID_TYPE, NoneStr)
    /\ raised.message = error_message("jira_create_issue", http.response)
    /\ CountOf(trace, "jira_create_issue") = 1

AfterLink == {"disclose", "disclose_ret", "aggregate", "done"}

\* C7 as stated: every issue created by stage 6 with a used type that is
\* not a sub-task is linked to the origin issue with "Relates"; with a
\* sub-task type link-issues is never called.
C7_CreatedNonSubtaskIsLinked ==
    IsFlow =>
        /\ (pc \in AfterLink /\ task_created # None
            /\ used_issue_type \notin SubtaskVariants) =>
               LinkEvents = <<link_event(payload.issueKey, task_created.key,
                                         RELATES)>>
        /\ used_issue_type \in SubtaskVariants => LinkEvents = <<>>

\* C7, amended: every issue created by stage 6 with a used type that is not
\* a sub-task and a create response that carries a key is linked to the
\* origin issue with "Relates", after the create call; with a sub-task type,
\* or a response without a key, link-issues is never called.
C7_CreatedNonSubtaskWithKeyIsLinked ==
    IsFlow =>
        /\ (pc \in AfterLink /\ task_created # None
            /\ used_issue_type \notin SubtaskVariants
            /\ task_created.key # NoneStr) =>
               /\ LinkEvents = <<link_event(payload.issueKey,
                                            task_created.key, RELATES)>>
               /\ \E i \in DOMAIN trace :
                    /\ trace[i].op = "jira_link_issues"
                    /\ \A j \in DOMAIN trace :
                         trace[j].op = "jira_create_issue" => j < i
        /\ used_issue_type \in SubtaskVariants => LinkEvents = <<>>
        /\ (task_created # None /\ task_created.key = NoneStr) =>
               LinkEvents = <<>>

C7_Witness ==
    /\ IsFlow
    /\ pc = "done"
    /\ used_issue_type = BUG
    /\ LinkEvents = <<link_event(ORIGIN_KEY, CREATED_KEY, RELATES)>>
    /\ response.body.automationTask = [key |-> CREATED_KEY]

C9_RetryOnlyTransientStatuses ==
    /\ \A i \in 1..(Len(http.statuses) - 1) :
         http.statuses[i] \in TransientStatuses
    /\ http.active =>
         \A i \in DOMAIN http.statuses : http.statuses[i] \in TransientStatuses
    /\ (Len(http.statuses) >= 1 /\ http.statuses[1] \notin TransientStatuses)
         => ~http.active /\ Len(http.statuses) = 1
    /\ ( /\ entry = "tracker_op"
         /\ pc \in {"done", "failed"}
         /\ Len(http.statuses) >= 1
         /\ http.statuses[1] \notin TransientStatuses
         /\ http.statuses[1] >= 300 ) =>
           /\ pc = "failed"
           /\ raised = [type |-> "RuntimeError",
                        message |-> error_prefix(payload.op)
                                    \o str_int(http.statuses[1]) \o COLON
                                    \o http.response.text]

C9_Witness ==
    /\ entry = "tracker_op"
    /\ payload.op = "jira_create_issue"
    /\ pc = "failed"
    /\ http.statuses = <<404>>

\* C10: a tracker operation that receives 503, 503, 503 and then 200 sends
\* four requests, that is three retries, and succeeds.
C10_ThreeRetriesThenSuccess ==
    ( /\ entry = "tracker_op"
      /\ Len(http.statuses) >= 3
      /\ \A i \in 1..3 : http.statuses[i] = 503 ) =>
        IF Len(http.statuses) = 3
        THEN http.active
        ELSE /\ Len(http.statuses) = 4
             /\ ~http.active
             /\ http.statuses[4] = 200 =>
                  /\ pc \in {"op_ret", "done"}
                  /\ http.response.status = 200
                  /\ raised = NoExc

C10_Witness ==
    /\ entry = "tracker_op"
    /\ payload.op = "jira_add_comment"
    /\ pc = "done"
    /\ http.statuses = <<503, 503, 503, 200>>

\* C11 as stated: one tracker operation never makes more than 3 HTTP
\* attempts, the first request and its retries counted together.
C11_AtMostThreeAttempts == Len(http.statuses) <= 3

\* C11, amended: one tracker operation never makes more than 4 HTTP
\* attempts, the first request and at most 3 retries, and a fourth attempt
\* is made only after three responses with a transient status.
C11_AtMostFourAttempts ==
    /\ Len(http.statuses) <= 4
    /\ http.active => Len(http.statuses) + http.retries_left = 3
    /\ Len(http.statuses) = 4 =>
         \A i \in 1..3 : http.statuses[i] \in TransientStatuses

C11_Witness ==
    /\ entry = "tracker_op"
    /\ payload.op = "jira_link_issues"
    /\ pc = "failed"
    /\ http.statuses = <<429, 500, 502, 504>>
    /\ raised.message = MSG_LINK_ERROR \o str_int(504) \o COLON \o TEXT_NOT_FOUND

\* the three credentials every tracker operation needs
ConnectionSettings ==
    /\ settings.jira_base_url
    /\ settings.jira_email
    /\ settings.jira_api_token

\* C12: a tracker operation invoked while the base URL, the email or the
\* API token is missing, or a create-issue invoked while the project key is
\* missing, fails with the RuntimeError of jira_auth and sends no HTTP
\* request: no exchange of that operation is ever started.
C12_MissingCredentialSendsNothing ==
    /\ ~ConnectionSettings => http = IdleHttp
    /\ ~settings.jira_project_key => http.op # "jira_create_issue"
    /\ ( /\ entry = "tracker_op"
         /\ pc # "call_op"
         /\ \/ ~ConnectionSettings
            \/ payload.op = "jira_create_issue" /\ ~settings.jira_project_key )
         => /\ pc = "failed"
            /\ raised.type = "RuntimeError"
            /\ raised.message = IF ConnectionSettings THEN MSG_MISSING_PROJECT
                                ELSE MSG_MISSING_ENV
            /\ Len(trace) = 1
            /\ http = IdleHttp
    /\ ( /\ entry = "tracker_op"
         /\ ConnectionSettings
         /\ payload.op # "jira_create_issue"
         /\ pc \in {"done", "failed"} ) => Len(http.statuses) >= 1

C12_Witness ==
    /\ entry = "tracker_op"
    /\ payload.op = "jira_create_issue"
    /\ ConnectionSettings
    /\ ~settings.jira_project_key
    /\ pc = "failed"
    /\ raised.message = MSG_MISSING_PROJECT
    /\ trace = <<create_event(SUMMARY_PREFIX, DESCRIPTION, TASK, NoneStr)>>
    /\ http.statuses = <<>>

\* the endpoints that take acceptance criteria and a context
TakesCriteria ==
    entry \in {"full_qa_flow", "full_qa_flow_async", "generate_tests"}

\* the request carries a phrase of the instruction-override list, in
\* letters of either case, in its criteria or its context
Injected ==
    /\ TakesCriteria
    /\ \/ payload.acceptanceCriteria = CRITERIA_INJECTED
       \/ payload.context = CONTEXT_INJECTED

\* the request passed the API key check and its handling is over
Handled == pc \in {"done", "failed", "logged"}

NoSideEffect ==
    /\ trace = <<>>
    /\ http = IdleHttp
    /\ disk = {}
    /\ jira_comment = None
    /\ files_written = None
    /\ task_created = None

\* C13 as stated: every request whose criteria or context carries a phrase
\* of the list is answered with 400, and neither the generation backend nor
\* the tracker nor the file writer is called.
C13_InjectionRejectedWith400 ==
    Injected =>
        /\ NoSideEffect
        /\ Handled => response.status_code = 400

\* C13, amended: for such a request neither the generation backend nor the
\* tracker nor the file writer is ever called; the generation endpoints and
\* the synchronous workflow answer it with 400, and the asynchronous entry
\* point acknowledges it with 200 and its background run only logs the
\* rejection.
C13_InjectionNeverReachesBackend ==
    Injected =>
        /\ NoSideEffect
        /\ pc # "generate_tests" /\ pc # "endpoint_generate_tests"
             => Handled \/ pc \in {"require_api_key", "rejected", "add_task",
                                   "background"}
        /\ (Handled /\ entry # "full_qa_flow_async") =>
             /\ pc = "failed"
             /\ response.status_code = 400
             /\ raised = [type |-> "ValueError", message |-> MSG_INJECTION]
        /\ (Handled /\ entry = "full_qa_flow_async") =>
             /\ pc = "logged"
             /\ response.status_code = 200
             /\ response.body.status = "accepted"
             /\ Len(log) = 1
             /\ contains(log[1], MSG_INJECTION)

C13_Witness ==
    /\ entry = "generate_tests"
    /\ settings.gemini_api_key
    /\ payload.acceptanceCriteria = CRITERIA_PLAIN
    /\ payload.context = CONTEXT_INJECTED
    /\ pc = "failed"
    /\ response.status_code = 400
    /\ trace = <<>>

\* the endpoints that depend on require_api_key
Guarded ==
    entry \in {"full_qa_flow", "full_qa_flow_async", "generate_tests"}

SecretConfigured == settings.api_auth_token \notin {NoneStr, EMPTY}

KeyMatches == x_api_key = settings.api_auth_token

NothingDone ==
    /\ NoSideEffect
    /\ background_tasks = <<>>
    /\ log = <<>>
    /\ tests = None

C14_Invariant ==
    /\ Guarded =>
         /\ pc # "require_api_key" =>
              (pc # "rejected" <=> (~SecretConfigured \/ KeyMatches))
         /\ pc \in {"require_api_key", "rejected"} => NothingDone
         /\ pc = "rejected" => response = [status_code |-> 401, body |-> None]
    /\ entry = "health" =>
         /\ pc \in {"health", "done"}
         /\ pc = "done" =>
              response = [status_code |-> 200, body |-> [status |-> "ok"]]

C14_HealthStep ==
    (entry = "health" /\ pc = "health") => pc' = "done"

\* C14: a request to an endpoint that depends on require_api_key goes on to
\* the endpoint exactly when no secret is configured or its X-API-Key header
\* equals the secret; otherwise it is answered with 401 and nothing has been
\* generated, sent to the tracker, written or scheduled.  /health answers
\* 200 whatever the header and the secret are.
C14_AdmittedIffNoSecretOrKeyMatches ==
    []C14_Invariant /\ [][C14_HealthStep]_vars

C14_Witness ==
    /\ entry = "full_qa_flow_async"
    /\ settings.api_auth_token = SECRET
    /\ x_api_key = WRONG_KEY
    /\ pc = "rejected"
    /\ response.status_code = 401
    /\ background_tasks = <<>>

\* the path is one the claim lets through: no "..", no leading slash or
\* backslash, under tests/ and with an approved suffix
PathAllowed(path) ==
    /\ ~contains(path, DOTDOT)
    /\ path # <<>>
    /\ path[1] \notin {"/", "\\"}
    /\ SubSeq(path, 1, 6) = TESTS_DIR
    /\ Len(path) >= 8
    /\ SubSeq(path, Len(path) - 7, Len(path)) \in APPROVED_SUFFIXES

PathMessages ==
    {MSG_PATH_EMPTY, MSG_PATH_ABSOLUTE, MSG_PATH_TRAVERSAL, MSG_PATH_BACKSLASH,
     MSG_PATH_NOT_TESTS, MSG_PATH_SUFFIX}

WriterCalled == CountOf(trace, "write_playwright_files") > 0

\* the validation of a file set failed on one of its paths
PathRejected ==
    \/ raised.message \in PathMessages
    \/ log # <<>> /\ \E m \in PathMessages : contains(log[1], m)

\* C15: in the workflow a generated file set is accepted only when every
\* one of its paths has no "..", no leading slash or backslash, lies under
\* tests/ and ends in an approved suffix; a set rejected for one of its
\* paths ends the workflow before the writer is called, so that none of its
\* files is written.
C15_BadPathRejectsWholeSet ==
    runs_flow =>
        /\ playwright # None =>
             \A i \in DOMAIN playwright.files :
                 PathAllowed(playwright.files[i].path)
        /\ WriterCalled => playwright # None
        /\ PathRejected =>
             /\ pc \in {"failed", "logged"}
             /\ playwright = None
             /\ ~WriterCalled
             /\ disk = {}
             /\ resolved = <<>>
             /\ files_written = None
             /\ entry = "full_qa_flow" => response.status_code = 400

C15_Witness ==
    /\ entry = "full_qa_flow"
    /\ payload.writePlaywrightFiles
    /\ pc = "failed"
    /\ raised.message = MSG_PATH_TRAVERSAL
    /\ tests # None
    /\ playwright = None
    /\ disk = {}

\* the path is absolute, has no ".." and starts with the root
UnderRoot(path) ==
    /\ Len(path) >= Len(BASE_DIR)
    /\ SubSeq(path, 1, Len(BASE_DIR)) = BASE_DIR
    /\ path[1] = "/"
    /\ ~contains(path, DOTDOT)

\* the writer stopped at a path that failed its check
WriterStopped ==
    \/ raised.message = MSG_ESCAPE
    \/ log # <<>> /\ contains(log[1], MSG_ESCAPE)

C17_AcceptedSetsHaveFiveScenarios ==
    /\ tests # None => Len(tests.scenarios) >= 5
    /\ (entry = "generate_tests" /\ pc = "done") =>
         Len(response.body.scenarios) >= 5

IsAsync == entry = "full_qa_flow_async"

\* the asynchronous endpoint has answered
Answered == pc \notin {"require_api_key", "rejected", "add_task"}

C18_Invariant ==
    IsAsync =>
        /\ pc # "failed"
        /\ pc # "rejected" => raised = NoExc
        /\ ~Answered => background_tasks = <<>>
        /\ Answered =>
             /\ response = [status_code |-> 200,
                            body |-> [status |-> "accepted", mode |-> "async",
                                      issueKey |-> payload.issueKey,
                                      message |-> MSG_STARTED]]
             /\ Len(background_tasks) = 1
             /\ background_tasks[1].func = "_run_full_qa_flow_background"
        /\ Len(log) <= 1
        /\ pc = "logged" <=> Len(log) = 1

C18_FailureStep ==
    (IsAsync /\ Answered /\ pc' = "logged") =>
        /\ response' = response
        /\ raised' = NoExc
        /\ Len(log') = 1
        /\ starts_with(log'[1], LOG_PREFIX \o payload.issueKey \o COLON)

\* C18: once admitted, the asynchronous endpoint answers 200 with status
\* "accepted" and mode "async" and has added the workflow to the background
\* tasks exactly once; the answer stays the same whatever the background run
\* does, and a failure of the background run at any stage is printed and
\* leaves neither the task nor the endpoint as an exception.
C18_AcknowledgedAndOnlyLogged ==
    []C18_Invariant /\ [][C18_FailureStep]_vars

C18_Witness ==
    /\ IsAsync
    /\ pc = "logged"
    /\ tests = None
    /\ trace = <<generate_event("tests")>>
    /\ contains(log[1], MSG_SCHEMA)
    /\ response.body.status = "accepted"
    /\ Len(background_tasks) = 1

\* the background task reads the request back from the dict it was given
C19_RoundTripStep ==
    (IsAsync /\ pc = "background") =>
        /\ pc' = "generate_tests"
        /\ payload' = payload
        /\ trace' = <<>>
        /\ log' = <<>>

\* the background run goes through the stages of _run_full_qa_flow with the
\* request the endpoint received
C19_Invariant ==
    (IsAsync /\ background_tasks # <<>>) =>
        /\ \A k \in DOMAIN payload :
             background_tasks[1].payload_data[k] = payload[k]
        /\ DOMAIN background_tasks[1].payload_data = DOMAIN payload
        /\ payload \in FullQAFlowRequest

DecisionYes ==
    /\ automation_decision # None
    /\ automation_decision.shouldCreateAutomationTask

\* the comments of stages 2 and 4: the scenarios and the decision
StageComments ==
    SelectSeq(trace, LAMBDA e : e.op = "jira_add_comment"
                                /\ e.comment \in {"scenarios", "decision"})

\* a create-issue call of the workflow returns the created issue
C20_CreatedStep ==
    ( /\ IsFlow
      /\ pc \in {"create_first_ret", "create_fallback_ret"}
      /\ ~http.active
      /\ http.response.status < 300 ) =>
        task_created' = [key |-> http.response.key]

C20_Invariant ==
    (IsFlow /\ pc = "done") =>
        LET body == response.body IN
        /\ response.status_code = 200
        /\ body.status = "ok"
        /\ body.tests # None
        /\ body.playwright # None
        /\ body.automationDecision # None
        /\ body.jiraComment = None <=> ~payload.commentOnJira
        /\ body.jiraComment # None =>
             /\ body.jiraComment.issueKey = payload.issueKey
             /\ Len(StageComments) = 2
        /\ body.jiraComment = None => StageComments = <<>>
        /\ body.filesWritten = None <=> ~payload.writePlaywrightFiles
        /\ body.filesWritten = None <=> ~WriterCalled
        /\ body.filesWritten # None =>
             Len(body.filesWritten.list) = Len(body.playwright.files)
        /\ body.automationTask = None
             <=> (~payload.createAutomationTask \/ ~DecisionYes)
        /\ body.automationTask = None
             <=> CountOf(trace, "jira_create_issue") = 0
        /\ body.automationTask = task_created
        /\ (body.automationTask # None /\ LinkEvents # <<>>) =>
             LinkEvents[1].outward_issue_key = body.automationTask.key

\* C20: in the result the synchronous workflow returns, jiraComment is null
\* exactly when commentOnJira is false, filesWritten is null exactly when
\* writePlaywrightFiles is false, and automationTask is null exactly when
\* createAutomationTask is false or the decision said no; with the three
\* toggles on and a decision that said yes, tests, playwright, jiraComment
\* with the issue key, filesWritten and automationTask with the key the
\* tracker returned are all there.
C20_ResultFieldsMatchSteps ==
    []C20_Invariant /\ [][C20_CreatedStep]_vars

C20_Witness ==
    /\ IsFlow
    /\ pc = "done"
    /\ payload.commentOnJira
    /\ payload.writePlaywrightFiles
    /\ payload.createAutomationTask
    /\ DecisionYes
    /\ response.body.jiraComment.issueKey = ORIGIN_KEY
    /\ response.body.filesWritten.list = <<BASE_DIR \o SLASH \o PATH_LOGIN>>
    /\ response.body.automationTask = [key |-> CREATED_KEY]


-----------------------------------------------------------------------------
(* Properties of the error statuses, the order of the stages and the       *)
(* tracker client                                                           *)

\* an endpoint run ended because the text the backend returned did not
\* validate: the last operation was a generation call that did return
SchemaMismatchRaised ==
    /\ entry \in {"full_qa_flow", "generate_tests"}
    /\ pc = "failed"
    /\ trace # <<>>
    /\ trace[Len(trace)].op = "generate"
    /\ raised.message # MSG_BACKEND

\* C21: on every endpoint, the full synchronous workflow included, generated
\* text that fails schema validation is answered with status 502, never with
\* 400 and never with 500.
C21_SchemaMismatchGives502 ==
    SchemaMismatchRaised => response.status_code = 502

\* the place of an operation in the order of _run_full_qa_flow
StageOf(e) ==
    IF e.op = "generate"
    THEN (IF e.prompt = "tests" THEN 1
          ELSE IF e.prompt = "playwright" THEN 3 ELSE 4)
    ELSE IF e.op = "jira_add_comment"
    THEN (IF e.comment = "scenarios" THEN 2
          ELSE IF e.comment = "decision" THEN 5 ELSE 9)
    ELSE IF e.op = "write_playwright_files" THEN 6
    ELSE IF e.op = "jira_create_issue" THEN 7
    ELSE 8

\* consecutive operations follow the order; only create-issue may be
\* followed by a second create-issue, its fallback attempt
InStageOrder(tr) ==
    \A i \in 1..(Len(tr) - 1) :
        \/ StageOf(tr[i]) < StageOf(tr[i + 1])
        \/ /\ StageOf(tr[i]) = 7
           /\ StageOf(tr[i + 1]) = 7
           /\ tr[i + 1].issue_type = TASK
           /\ \A j \in 1..(i - 1) : StageOf(tr[j]) # 7

\* an operation starts when no tracker call is in flight, the decision is
\* generated after the scenarios were validated, and files are written
\* after the decision was validated
C22_StartStep ==
    (runs_flow /\ trace' # trace) =>
        LET e == trace'[Len(trace')] IN
        /\ ~http.active
        /\ Len(trace') = Len(trace) + 1
        /\ (e.op = "generate" /\ e.prompt = "decision") =>
             (tests # None /\ tests_valid(tests))
        /\ e.op = "write_playwright_files" =>
             (automation_decision # None
              /\ decision_valid(automation_decision))

C22_Invariant == runs_flow => InStageOrder(trace)

\* C22: the operations of one workflow invocation occur in the order
\* scenario generation, scenario comment, file generation, decision
\* generation, decision comment, file write, create-issue (with its
\* fallback attempt), link-issues, fallback disclosure comment, each
\* starting after the previous one has completed; the decision is never
\* generated before the scenarios were validated and no file is written
\* before the decision was validated.
C22_StagesInOrder ==
    []C22_Invariant /\ [][C22_StartStep]_vars

C22_Witness ==
    /\ IsFlow
    /\ pc = "done"
    /\ Len(trace) = 10
    /\ [i \in 1..10 |-> StageOf(trace[i])] = <<1, 2, 3, 4, 5, 6, 7, 7, 8, 9>>

GenerateCalls == EventsOf(trace, "generate")

\* the invocation has ended with an error
FlowFailed == runs_flow /\ pc \in {"failed", "logged"}

C23_Invariant ==
    runs_flow =>
        /\ Len(GenerateCalls) <= 3
        /\ [i \in 1..Len(GenerateCalls) |-> GenerateCalls[i].prompt]
             = SubSeq(<<"tests", "playwright", "decision">>, 1,
                      Len(GenerateCalls))
        /\ (FlowFailed /\ tests = None) => Len(GenerateCalls) <= 1
        /\ (FlowFailed /\ playwright = None) => Len(GenerateCalls) <= 2
        /\ pc = "done" => Len(GenerateCalls) = 3

\* after a failure no further operation is started
C23_NoRepeatStep == FlowFailed => trace' = trace

\* C23: one workflow invocation calls the generation backend at most three
\* times, at most once each for scenarios, files and decision, in that
\* order; no generation call is repeated after a backend failure or a
\* schema mismatch; a completed invocation has made exactly three
\* generation calls whatever the toggles are.
C23_AtMostThreeGenerationCalls ==
    []C23_Invariant /\ [][C23_NoRepeatStep]_vars

C23_Witness ==
    /\ IsFlow
    /\ pc = "done"
    /\ ~payload.commentOnJira
    /\ ~payload.writePlaywrightFiles
    /\ ~payload.createAutomationTask
    /\ Len(GenerateCalls) = 3
    /\ Len(trace) = 3

CreateCalls == EventsOf(trace, "jira_create_issue")

CallsFallback == runs_flow \/ entry = "create_issue_with_fallback"

C24_Invariant ==
    CallsFallback =>
        /\ Len(CreateCalls) <= 2
        /\ Len(CreateCalls) = 2 =>
             /\ CreateCalls[2].summary = CreateCalls[1].summary
             /\ CreateCalls[2].description
                  = CreateCalls[1].description \o FALLBACK_NOTE
             /\ CreateCalls[2].issue_type = TASK
             /\ CreateCalls[2].parent_key = NoneStr
        /\ pc = "create_fallback_ret" =>
             /\ Len(CreateCalls) = 2
             /\ http.request.summary = CreateCalls[1].summary
             /\ http.request.description = CreateCalls[2].description
             /\ http.request.issuetype = TASK
             /\ http.request.parent = NoneStr

\* the fallback attempt has failed: its error leaves the function
C24_FailureStep ==
    ( /\ CallsFallback
      /\ pc = "create_fallback_ret"
      /\ ~http.active
      /\ http.response.status >= 300 ) =>
        /\ trace' = trace
        /\ http' = http
        /\ task_created' = None
        /\ IF entry = "full_qa_flow_async"
           THEN pc' = "logged"
           ELSE /\ pc' = "failed"
                /\ raised' = [type |-> "RuntimeError",
                              message |-> error_message("jira_create_issue",
                                                        http.response)]

\* C24: _create_issue_with_fallback makes at most two create-issue attempts;
\* the fallback attempt has the same summary, the description with the
\* fallback note appended, issue type "Task" and no parent; when the
\* fallback attempt fails, its failure reaches the caller and there is no
\* third attempt.
C24_AtMostTwoCreateAttempts ==
    []C24_Invariant /\ [][C24_FailureStep]_vars

C24_Witness ==
    /\ entry = "create_issue_with_fallback"
    /\ pc = "failed"
    /\ Len(CreateCalls) = 2
    /\ payload.parent_key = ORIGIN_KEY
    /\ CreateCalls[1].parent_key = ORIGIN_KEY
    /\ CreateCalls[2].parent_key = NoneStr
    /\ raised.type = "RuntimeError"
    /\ http.response.status >= 300
    /\ raised.message = error_message("jira_create_issue", http.response)

\* a direct call of a tracker operation has returned or raised
TrackerOpEnded == entry = "tracker_op" /\ pc \in {"done", "failed"}

\* how an operation ends once its exchange is over
C25_OutcomeStep ==
    (entry = "tracker_op" /\ pc = "op_ret" /\ ~http.active) =>
        IF http.response.status < 300
        THEN pc' = "done" /\ raised' = NoExc
        ELSE /\ pc' = "failed"
             /\ raised' = [type |-> "RuntimeError",
                           message |-> error_message(http.op, http.response)]

\* C25: every tracker operation terminates.  Whatever the tracker answers,
\* an endless run of retryable statuses included, the exchange ends after
\* at most RetryTotal retries, and the operation then returns (final status
\* below 300) or raises the error that carries the final status.
C25_TrackerOperationTerminates ==
    /\ (http.active ~> ~http.active)
    /\ (entry = "tracker_op" ~> TrackerOpEnded)
    /\ [](Len(http.statuses) <= RetryTotal + 1)
    /\ [][C25_OutcomeStep]_vars

C25_Witness ==
    /\ entry = "tracker_op"
    /\ payload.op = "jira_add_comment"
    /\ pc = "failed"
    /\ http.statuses = <<503, 503, 503, 503>>
    /\ http.retries_left = 0
    /\ raised.message
         = MSG_COMMENT_ERROR \o str_int(503) \o COLON \o TEXT_NOT_FOUND

\* the request a tracker operation of the trace posts
RequestOf(e) ==
    IF e.op = "jira_add_comment" THEN comment_request(e.issue_key, e.comment)
    ELSE IF e.op = "jira_create_issue"
         THEN create_request(e.summary, e.description, e.issue_type,
                             e.parent_key)
         ELSE link_request(e.inward_issue_key, e.outward_issue_key,
                           e.link_type_name)

TrackerCalls == SelectSeq(trace, LAMBDA e : e.op \in TrackerOps)

\* every operation of the invocation is one its own request asks for
OwnOperation(e) ==
    IF e.op = "jira_add_comment" THEN e.issue_key = payload.issueKey
    ELSE IF e.op = "jira_create_issue"
         THEN e.summary
                = payload.issueKey \o BAR \o payload.automationSummaryPrefix
    ELSE IF e.op = "jira_link_issues"
         THEN e.inward_issue_key = payload.issueKey
    ELSE TRUE

\* The invocation that runs, which is either of the two: its operations
\* are in order and are its own, the exchange it sees is the one of its own
\* last tracker call, and its answer is made of its own locals.
C26_Invariant ==
    /\ \A i \in DOMAIN trace : OwnOperation(trace[i])
    /\ InStageOrder(trace)
    /\ TrackerCalls = <<>> => http = IdleHttp
    /\ TrackerCalls # <<>> =>
         /\ http.op = TrackerCalls[Len(TrackerCalls)].op
         /\ http.request = RequestOf(TrackerCalls[Len(TrackerCalls)])
    /\ (entry = "full_qa_flow" /\ pc = "done") =>
         response = [status_code |-> 200, body |-> flow_result]
    /\ (entry = "full_qa_flow_async" /\ response # NoResponse) =>
         response.body.issueKey = payload.issueKey

\* a step is a step of the running invocation, which leaves the suspended
\* one as it is, or a change of the running invocation, which leaves both
\* as they are; no step changes the settings or the tracker
C26_Step ==
    /\ settings' = settings
    /\ pool' = pool
    /\ \/ other' = other
       \/ other' = frame /\ frame' = other

TripleReturned == CallsFallback /\ task_created # None

\* C27: the triple _create_issue_with_fallback returns is consistent.  The
\* warning is non-null exactly when a fallback attempt was made, and then
\* the used issue type is "Task"; when the first attempt succeeds there was
\* exactly one create attempt, the used issue type is the requested one and
\* the warning is null.
C27_TripleIsConsistent ==
    /\ TripleReturned =>
         /\ Len(CreateCalls) \in {1, 2}
         /\ issue_type_warning # NoneStr <=> Len(CreateCalls) = 2
         /\ Len(CreateCalls) = 2 =>
              /\ used_issue_type = TASK
              /\ issue_type_warning = message
              /\ contains(lower(issue_type_warning), VALID_ISSUE_TYPE)
         /\ Len(CreateCalls) = 1 =>
              /\ used_issue_type = arg_issue_type
              /\ used_issue_type = CreateCalls[1].issue_type
              /\ issue_type_warning = NoneStr
    /\ (CallsFallback /\ task_created = None) =>
         /\ used_issue_type = NoneStr
         /\ issue_type_warning = NoneStr

C27_Witness ==
    /\ entry = "create_issue_with_fallback"
    /\ pc = "done"
    /\ payload.issue_type = SUB_TASK
    /\ payload.parent_key = ORIGIN_KEY
    /\ Len(CreateCalls) = 1
    /\ task_created = [key |-> CREATED_KEY]
    /\ used_issue_type = SUB_TASK
    /\ issue_type_warning = NoneStr

CommentCalls == EventsOf(trace, "jira_add_comment")

\* the invocation is over
FlowEnded == runs_flow /\ pc \in {"done", "failed", "logged"}

LinkFailed ==
    /\ FlowFailed
    /\ trace # <<>>
    /\ trace[Len(trace)].op = "jira_link_issues"

C29_KeepStep ==
    runs_flow =>
        /\ Len(trace') >= Len(trace)
        /\ SubSeq(trace', 1, Len(trace)) = trace
        /\ disk \subseteq disk'
        /\ task_created # None => task_created' = task_created
        /\ jira_comment # None => jira_comment' = jira_comment
        /\ files_written # None => files_written' = files_written

\* the synchronous workflow failed after an issue was created
FailedAfterCreate == IsFlow /\ pc = "failed" /\ task_created # None

C29_Invariant ==
    /\ runs_flow =>
         \A i \in DOMAIN trace :
             trace[i].op \in TrackerOps \cup {"generate",
                                             "write_playwright_files"}
    /\ FailedAfterCreate =>
         /\ trace[Len(trace)].op \in {"jira_link_issues", "jira_add_comment"}
         /\ trace[Len(trace)].op = "jira_add_comment" =>
              trace[Len(trace)].comment = "fallback"
         /\ CreateCalls # <<>>
         /\ raised.type = "RuntimeError"
         /\ response.status_code = 500
         /\ response.body = None
         /\ payload.commentOnJira => Len(StageComments) = 2
         /\ payload.writePlaywrightFiles =>
              /\ files_written # None
              /\ \A i \in DOMAIN files_written.list :
                     files_written.list[i] \in disk

\* the link step or the disclosure comment fails after the creation
C29_FailureStep ==
    ( /\ IsFlow
      /\ pc \in {"link_ret", "disclose_ret"}
      /\ ~http.active
      /\ http.response.status >= 300 ) =>
        /\ task_created # None
        /\ task_created' = task_created
        /\ trace' = trace
        /\ pc' = "failed"
        /\ response' = [status_code |-> 500, body |-> None]

\* C29: the workflow never undoes a side effect.  When a later operation
\* fails, the comments posted, the files written and the issue created
\* remain; when link-issues or the fallback disclosure comment fails after
\* the issue was created, the synchronous call answers with an error that
\* reports no automationTask although the issue exists.
C29_NoRollback ==
    []C29_Invariant /\ [][C29_KeepStep /\ C29_FailureStep]_vars

C29_Witness ==
    /\ FailedAfterCreate
    /\ task_created = [key |-> CREATED_KEY]
    /\ issue_type_warning # NoneStr
    /\ trace[Len(trace)] = comment_event(ORIGIN_KEY, "fallback")
    /\ Len(LinkEvents) = 1
    /\ payload.commentOnJira
    /\ payload.writePlaywrightFiles
    /\ disk # {}
    /\ response.status_code = 500

\* stage 6 has created an issue and is complete
Stage6Complete ==
    runs_flow /\ pc \in {"aggregate", "done"} /\ task_created # None

\* the fields posted by the create-issue call that succeeded, the last one
CreatedFields == RequestOf(CreateCalls[Len(CreateCalls)])

AttachedAsSubtask ==
    /\ is_subtask(used_issue_type)
    /\ CreatedFields.issuetype = used_issue_type
    /\ CreatedFields.parent = payload.issueKey
    /\ LinkEvents = <<>>

AttachedByLink ==
    /\ ~is_subtask(used_issue_type)
    /\ CreatedFields.issuetype = used_issue_type
    /\ CreatedFields.parent = NoneStr
    /\ LinkEvents = <<link_event(payload.issueKey, task_created.key, RELATES)>>

\* a non-sub-task issue whose create response had no key is left alone
NotAttached ==
    /\ ~is_subtask(used_issue_type)
    /\ CreatedFields.parent = NoneStr
    /\ task_created.key = NoneStr
    /\ LinkEvents = <<>>

\* C30 as stated: every issue created by an invocation that completes stage
\* 6 is attached to the origin issue by exactly one mechanism, as a
\* sub-task with the origin issue as parent and no link, or with no parent
\* field and a "Relates" link; never both and never neither.
C30_AttachedByExactlyOneMechanism ==
    Stage6Complete =>
        /\ AttachedAsSubtask \/ AttachedByLink
        /\ ~(AttachedAsSubtask /\ AttachedByLink)

\* C30, amended: an issue created by an invocation that completes stage 6
\* is attached as a sub-task with the origin issue as parent and no link, or,
\* when the create response carries a key, with no parent field and a
\* "Relates" link; never both.  A non-sub-task issue whose create response
\* carries no key gets neither parent nor link.
C30_AttachedOnceWhenKeyed ==
    Stage6Complete =>
        /\ AttachedAsSubtask \/ AttachedByLink \/ NotAttached
        /\ task_created.key # NoneStr => ~NotAttached
        /\ ~(CreatedFields.parent # NoneStr /\ LinkEvents # <<>>)
        /\ Len(LinkEvents) <= 1
        /\ CreateCalls[1].parent_key = payload.issueKey

C30_Witness ==
    /\ IsFlow
    /\ pc = "done"
    /\ used_issue_type = SUB_TASK
    /\ Len(CreateCalls) = 1
    /\ CreatedFields.parent = ORIGIN_KEY
    /\ task_created = [key |-> CREATED_KEY]
    /\ LinkEvents = <<>>
    /\ response.body.automationTask = [key |-> CREATED_KEY]
====
